---- MODULE Spec2Model ----
(***************************************************************************)
(* Model of the sandboxed filesystem command engine of FileManagerTauri    *)
(* (src-tauri/src/commands): path validation, sandbox policy, copy, move,  *)
(* delete, create, rename and search.                                      *)
(*                                                                         *)
(* A path is the sequence of its components as std::path::Path yields      *)
(* them: an absolute path starts with the RootDir component "/", a parent  *)
(* directory component is "..".  The filesystem is a function from the     *)
(* physical (link-free) absolute paths that exist to their nodes; its      *)
(* domain is closed under parent, and only directories have children.  The *)
(* model is the unix build (cfg(not(windows))).                            *)
(*                                                                         *)
(* Values that are used more than once are bound as parameters of a local  *)
(* operator (LET K(v) == ... IN K(e)), so that e is evaluated once.        *)
(***************************************************************************)
EXTENDS Integers, Sequences, FiniteSets, TLC

VARIABLES fs, config, last, nops, par, job

vars == <<fs, config, last, nops, par, job>>

(***************************************************************************)
(* Bounds of the model.                                                    *)
(***************************************************************************)
\* Number of commands issued in one behaviour.
MaxOps == 1
\* Symlink hops one path resolution follows before it gives up (ELOOP).
MaxSymlinks == 3
\* Largest number of cores std::thread::available_parallelism reports.
MaxCores == 2
\* Nesting of the deepest directory below the source in the trees of
\* SpecDeep, from MinNesting to MaxNesting.
MinNesting == 99
MaxNesting == 102
MaxSources == 6
MaxWorkers == 2
MaxResults == 2

(***************************************************************************)
(* Paths (std::path).                                                      *)
(***************************************************************************)
NoPath == <<>>

is_absolute(p) == Len(p) > 0 /\ p[1] = "/"

\* Path::starts_with: whole components, never a string prefix.
starts_with(p, base) ==
    /\ Len(base) <= Len(p)
    /\ \A i \in 1..Len(base) : p[i] = base[i]

\* Path::parent: None (NoPath) for the root and for the empty path.
parent(p) == IF Len(p) <= 1 THEN NoPath ELSE SubSeq(p, 1, Len(p) - 1)

\* Path::file_name: None ("") for the root and for a path ending in "..".
file_name(p) ==
    IF p = <<>> \/ p = <<"/">> \/ p[Len(p)] = ".." THEN "" ELSE p[Len(p)]

join(p, name) == Append(p, name)

\* The names of the model's filesystems in the order of str::cmp (byte
\* order); "\\xff" stands for a name that is not valid UTF-8.
AllNames ==
    <<"B", "C", "a", "b", "c", "d", "f", "g", "in", "j", "k", "l", "m", "n",
      "nx", "out", "root", "s", "t", "x", "\\xff">>

(***************************************************************************)
(* Filesystem nodes and the kernel's path resolution.                      *)
(***************************************************************************)
Dir == [kind |-> "dir", target |-> NoPath, data |-> 0]
File(d) == [kind |-> "file", target |-> NoPath, data |-> d]
Link(t) == [kind |-> "link", target |-> t, data |-> 0]

\* The function f without the paths in S.
Without(f, S) == [q \in (DOMAIN f) \ S |-> f[q]]

\* The function f with path p bound to node n.
With(f, p, n) == (p :> n) @@ f

\* The number of leading components of rest that lead from the physical
\* directory cur to physical paths that exist (a ".." component never does).
Plain(f, cur, rest) ==
    IF (cur \o rest) \in DOMAIN f THEN Len(rest)
    ELSE CHOOSE k \in 0..(Len(rest) - 1) :
            /\ (cur \o SubSeq(rest, 1, k)) \in DOMAIN f
            /\ (cur \o SubSeq(rest, 1, k + 1)) \notin DOMAIN f

RECURSIVE Walk(_, _, _, _, _)
\* Resolution of the components rest from the physical directory cur:
\* symlinks in intermediate components are always followed, the last one
\* only when followLast.  NoPath when a component is missing (ENOENT), a
\* non-directory is traversed (ENOTDIR) or too many links are met (ELOOP).
\* The components up to the first link, ".." or missing one are taken in
\* one step.
Walk(f, cur, rest, followLast, fuel) ==
    LET Reached(at, more) ==
            IF f[at].kind = "link"
            THEN IF more = <<>> /\ ~followLast THEN at
                 ELSE IF fuel = 0 THEN NoPath
                 ELSE Walk(f, <<"/">>, Tail(f[at].target) \o more,
                           followLast, fuel - 1)
            ELSE IF more = <<>> THEN at
            ELSE IF f[at].kind # "dir" THEN NoPath
            ELSE IF Head(more) = ".."
            THEN Walk(f, IF Len(at) <= 1 THEN at ELSE parent(at), Tail(more),
                      followLast, fuel)
            ELSE NoPath
        Hops(k) == Reached(cur \o SubSeq(rest, 1, k),
                           SubSeq(rest, k + 1, Len(rest)))
    IN  Hops(Plain(f, cur, rest))

\* Physical location of path p, NoPath when it does not resolve.  Relative
\* paths resolve against a working directory that holds nothing.
Resolve(f, p, followLast) ==
    IF ~is_absolute(p) THEN NoPath
    ELSE Walk(f, <<"/">>, Tail(p), followLast, MaxSymlinks)

\* Path::canonicalize / std::fs::metadata: follows every symlink.
canonicalize(f, p) == Resolve(f, p, TRUE)

\* The node at the physical path q, kind "none" when q is NoPath.
NodeAt(f, q) ==
    IF q = NoPath THEN [kind |-> "none", target |-> NoPath, data |-> 0]
    ELSE f[q]

\* std::fs::symlink_metadata (lstat): "none" when the path does not exist.
symlink_metadata(f, p) == NodeAt(f, Resolve(f, p, FALSE))

\* std::fs::metadata (stat).
metadata(f, p) == NodeAt(f, Resolve(f, p, TRUE))

\* Path::exists / is_dir: follow symlinks.
exists(f, p) == Resolve(f, p, TRUE) # NoPath

is_dir(f, p) == metadata(f, p).kind = "dir"

\* Physical location a new entry named by p would be created at: the
\* resolved parent joined with the last component.
ResolveNew(f, p) ==
    LET In(par_dir) ==
            IF NodeAt(f, par_dir).kind # "dir" THEN NoPath
            ELSE Append(par_dir, p[Len(p)])
    IN  IF Len(p) <= 1 \/ p[Len(p)] = ".." THEN NoPath
        ELSE In(Resolve(f, parent(p), TRUE))

\* Physical location an open for writing with O_CREAT reaches: a symlink at
\* the last component is followed, also to a target that does not exist yet.
ResolveWrite(f, p) ==
    LET Thru(slot, r) == IF r # NoPath THEN r
                         ELSE ResolveNew(f, f[slot].target)
        At(slot) == IF slot = NoPath THEN NoPath
                    ELSE IF slot \in DOMAIN f /\ f[slot].kind = "link"
                    THEN Thru(slot, Resolve(f, p, TRUE))
                    ELSE slot
    IN  At(ResolveNew(f, p))

(***************************************************************************)
(* glob::Pattern on component sequences.  A pattern is the sequence of its *)
(* components: "/" (leading separator of an absolute pattern), "**" (the   *)
(* recursive wildcard) or a literal component.                             *)
(***************************************************************************)
\* Pattern::new: "***" is rejected (PatternError), and check_sandbox then
\* skips the pattern.
PatternNew(pat) == \A i \in 1..Len(pat) : pat[i] # "***"

RECURSIVE GlobFrom(_, _, _, _)
\* Pattern::matches_from with the tokens from i against the components
\* from j.  A leading or inner "**" takes any number of whole components; a
\* trailing "**" follows the separator that ends a literal component, so
\* at least one more component has to be there.
GlobFrom(pat, i, path, j) ==
    IF i > Len(pat) THEN j > Len(path)
    ELSE IF pat[i] = "**"
    THEN IF i = Len(pat)
         THEN i = 1 \/ pat[i - 1] = "/" \/ j <= Len(path)
         ELSE \E k \in j..(Len(path) + 1) : GlobFrom(pat, i + 1, path, k)
    ELSE /\ j <= Len(path)
         /\ pat[i] = path[j]
         /\ GlobFrom(pat, i + 1, path, j + 1)

\* Pattern::matches on the path's string.
PatternMatches(pat, path) == GlobFrom(pat, 1, path, 1)

(***************************************************************************)
(* commands/validation.rs                                                  *)
(***************************************************************************)
\* cfg(windows) of the build that is modelled.
IsWindows == FALSE

\* The extended-length prefix is a first component "\\?\" of the path.
normalize_windows_path(p) ==
    IF IsWindows /\ Len(p) > 0 /\ p[1] = "\\\\?\\" THEN Tail(p) ELSE p

has_traversal_components(p) == \E i \in 1..Len(p) : p[i] = ".."

\* A validation result: err is "Ok" or the FsError, path the validated
\* path, fsCalls the number of filesystem calls the validation made.
Result(e, p, n) == [err |-> e, path |-> p, fsCalls |-> n]

\* A plausible slip: canonicalize first, look for ".." afterwards.
validate_path_canonicalize_first(f, p) ==
    LET Canonical(canonical) ==
            IF canonical = NoPath THEN Result("InvalidPath", NoPath, 1)
            ELSE IF has_traversal_components(p)
            THEN Result("InvalidPath", NoPath, 1)
            ELSE Result("Ok", normalize_windows_path(canonical), 1)
    IN  IF ~is_absolute(p) THEN Result("PathNotAbsolute", NoPath, 0)
        ELSE Canonical(canonicalize(f, p))

validate_path(f, p) ==
    LET Canonical(canonical) ==
            IF canonical = NoPath THEN Result("InvalidPath", NoPath, 1)
            ELSE IF Len(canonical) < 1 THEN Result("InvalidPath", NoPath, 1)
            ELSE Result("Ok", normalize_windows_path(canonical), 1)
    IN  IF ~is_absolute(p) THEN Result("PathNotAbsolute", NoPath, 0)
        ELSE IF has_traversal_components(p)
        THEN Result("InvalidPath", NoPath, 0)
        ELSE Canonical(canonicalize(f, p))

validate_path_no_follow(f, p) ==
    IF ~is_absolute(p) THEN Result("PathNotAbsolute", NoPath, 0)
    ELSE IF has_traversal_components(p) THEN Result("InvalidPath", NoPath, 0)
    ELSE IF symlink_metadata(f, p).kind = "none"
    THEN Result("InvalidPath", NoPath, 1)
    ELSE Result("Ok", normalize_windows_path(p), 1)

\* "Ok" or "AccessDenied".
check_sandbox(p, cfg) ==
    LET Check(normalized_path) ==
            IF ~\E r \in 1..Len(cfg.allowed_roots) :
                   starts_with(normalized_path,
                               normalize_windows_path(cfg.allowed_roots[r]))
            THEN "AccessDenied"
            ELSE IF \E k \in 1..Len(cfg.denied_patterns) :
                       /\ PatternNew(cfg.denied_patterns[k])
                       /\ PatternMatches(cfg.denied_patterns[k],
                                         normalized_path)
            THEN "AccessDenied"
            ELSE "Ok"
    IN  Check(normalize_windows_path(p))

\* The sandbox check of a validated path v.
Sandboxed(v, cfg) ==
    IF v.err # "Ok" THEN v
    ELSE IF check_sandbox(v.path, cfg) # "Ok"
    THEN Result("AccessDenied", NoPath, v.fsCalls)
    ELSE v

validate_sandboxed(f, p, cfg) == Sandboxed(validate_path(f, p), cfg)

validate_sandboxed_no_follow(f, p, cfg) ==
    Sandboxed(validate_path_no_follow(f, p), cfg)

RECURSIVE validate_paths_sandboxed(_, _, _)
\* collect() into a Result: the first error ends it.  paths holds the
\* validated paths, in order, when err is "Ok".
validate_paths_sandboxed(f, paths, cfg) ==
    LET Collect(v, rest) ==
            IF v.err # "Ok" THEN [err |-> v.err, paths |-> <<>>]
            ELSE IF rest.err # "Ok" THEN rest
            ELSE [err |-> "Ok", paths |-> <<v.path>> \o rest.paths]
    IN  IF paths = <<>> THEN [err |-> "Ok", paths |-> <<>>]
        ELSE Collect(validate_sandboxed_no_follow(f, Head(paths), cfg),
                     validate_paths_sandboxed(f, Tail(paths), cfg))

(***************************************************************************)
(* std::fs calls.  An operation state st is [f, reads]: the filesystem and *)
(* the physical files whose content has been read so far.  A call returns  *)
(* [err, f] or [err, f, reads] with err "Ok" or an error.                  *)
(***************************************************************************)
Done(e, f, reads) == [err |-> e, f |-> f, reads |-> reads]

\* Device of a physical path: everything below MountPoint is a second
\* device, so a rename across it fails with EXDEV.
MountPoint == <<"/", "root", "m">>

Device(q) == IF starts_with(q, MountPoint) THEN "dev1" ELSE "dev0"

\* Physical paths of the subtree rooted at the physical path q.
Subtree(f, q) == {r \in DOMAIN f : starts_with(r, q)}

Children(f, q) == {r \in DOMAIN f : Len(r) = Len(q) + 1 /\ starts_with(r, q)}

\* fs::read_dir: the names in the directory (a symlink to it is followed),
\* or "Io".
read_dir(f, p) ==
    LET List(q) ==
            IF NodeAt(f, q).kind # "dir" THEN [err |-> "Io", names |-> {}]
            ELSE [err |-> "Ok", names |-> {r[Len(r)] : r \in Children(f, q)}]
    IN  List(Resolve(f, p, TRUE))

\* fs::copy: reads the regular file src resolves to and writes it over
\* what dst resolves to.  Copying a file onto itself truncates it.
fs_copy(st, src, dst) ==
    LET Copy(from, to) ==
            IF NodeAt(st.f, from).kind # "file"
            THEN Done("Io", st.f, st.reads)
            ELSE IF to = NoPath
                    \/ (to \in DOMAIN st.f /\ st.f[to].kind # "file")
            THEN Done("Io", st.f, st.reads)
            ELSE Done("Ok",
                      With(st.f, to,
                           File(IF to = from THEN 0 ELSE st.f[from].data)),
                      st.reads \cup {from})
    IN  Copy(Resolve(st.f, src, TRUE), ResolveWrite(st.f, dst))

\* mkdir(2): "Ok", "NotFound" (no parent directory) or "Io" (EEXIST).
mkdir(f, p) ==
    LET Make(slot) ==
            IF slot = NoPath THEN [err |-> "NotFound", f |-> f]
            ELSE IF slot \in DOMAIN f THEN [err |-> "Io", f |-> f]
            ELSE [err |-> "Ok", f |-> With(f, slot, Dir)]
    IN  Make(ResolveNew(f, p))

\* fs::create_dir: mkdir with every failure an I/O error.
create_dir(f, p) ==
    LET Made(m) == [err |-> IF m.err = "Ok" THEN "Ok" ELSE "Io", f |-> m.f]
    IN  Made(mkdir(f, p))

\* The second mkdir of create_dir_all, after the parent has been created.
MkdirAgain(f, up, p) ==
    LET Made(m2) ==
            IF m2.err = "Ok" THEN m2
            ELSE [err |-> IF is_dir(up.f, p) THEN "Ok" ELSE "Io", f |-> up.f]
    IN  IF up.err # "Ok" THEN [err |-> "Io", f |-> f]
        ELSE Made(mkdir(up.f, p))

RECURSIVE create_dir_all(_, _)
\* DirBuilder::create_dir_all: mkdir; on NotFound create the parent first
\* and mkdir again; any other failure is fine when the path is a directory.
create_dir_all(f, p) ==
    LET Made(m) ==
            IF m.err = "Ok" THEN m
            ELSE IF m.err = "Io"
            THEN [err |-> IF is_dir(f, p) THEN "Ok" ELSE "Io", f |-> f]
            ELSE MkdirAgain(f, create_dir_all(f, parent(p)), p)
    IN  IF Len(p) <= 1
        THEN [err |-> IF is_absolute(p) THEN "Ok" ELSE "Io", f |-> f]
        ELSE Made(mkdir(f, p))

\* fs::File::create: creates or truncates the file the path resolves to.
file_create(f, p) ==
    LET Create(to) ==
            IF to = NoPath \/ (to \in DOMAIN f /\ f[to].kind # "file")
            THEN [err |-> "Io", f |-> f]
            ELSE [err |-> "Ok", f |-> With(f, to, File(0))]
    IN  Create(ResolveWrite(f, p))

\* fs::remove_file (unlink): removes a file or the symlink itself.
remove_file(f, p) ==
    LET Unlink(q) ==
            IF q = NoPath \/ f[q].kind = "dir" THEN [err |-> "Io", f |-> f]
            ELSE [err |-> "Ok", f |-> Without(f, {q})]
    IN  Unlink(Resolve(f, p, FALSE))

\* fs::remove_dir (rmdir): an empty directory only, never through a link.
remove_dir(f, p) ==
    LET Rmdir(q) ==
            IF q = NoPath \/ Len(q) <= 1 THEN [err |-> "Io", f |-> f]
            ELSE IF f[q].kind # "dir" \/ Children(f, q) # {}
            THEN [err |-> "Io", f |-> f]
            ELSE [err |-> "Ok", f |-> Without(f, {q})]
    IN  Rmdir(Resolve(f, p, FALSE))

\* fs::remove_dir_all on unix: a symlink is unlinked, a directory is
\* removed with everything physically inside it, a file is ENOTDIR.
remove_dir_all(f, p) ==
    LET Remove(q) ==
            IF q = NoPath \/ Len(q) <= 1 THEN [err |-> "Io", f |-> f]
            ELSE IF f[q].kind = "link"
            THEN [err |-> "Ok", f |-> Without(f, {q})]
            ELSE IF f[q].kind = "file" THEN [err |-> "Io", f |-> f]
            ELSE [err |-> "Ok", f |-> Without(f, Subtree(f, q))]
    IN  Remove(Resolve(f, p, FALSE))

\* fs::rename (rename(2)): "Ok", "EXDEV" or "Io".  Neither end follows a
\* final symlink; an existing target is replaced when the kinds allow it.
fs_rename(f, src, dst) ==
    LET Moved(s, d, dom) ==
            [q \in dom |-> IF starts_with(q, d)
                           THEN f[s \o SubSeq(q, Len(d) + 1, Len(q))]
                           ELSE f[q]]
        Rename(s, d) ==
            IF s = NoPath \/ d = NoPath \/ Len(s) <= 1
            THEN [err |-> "Io", f |-> f]
            ELSE IF Device(s) # Device(d) THEN [err |-> "EXDEV", f |-> f]
            ELSE IF s = d THEN [err |-> "Ok", f |-> f]
            ELSE IF starts_with(d, s) \/ starts_with(s, d)
            THEN [err |-> "Io", f |-> f]
            ELSE IF d \in DOMAIN f
                    /\ \/ (f[s].kind = "dir") # (f[d].kind = "dir")
                       \/ Children(f, d) # {}
            THEN [err |-> "Io", f |-> f]
            ELSE [err |-> "Ok",
                  f |-> Moved(s, d,
                              ((DOMAIN f) \ Subtree(f, s))
                              \cup {d \o SubSeq(q, Len(s) + 1, Len(q)) :
                                      q \in Subtree(f, s)})]
    IN  Rename(Resolve(f, src, FALSE), ResolveNew(f, dst))

(***************************************************************************)
(* commands/config.rs, commands/fs/copy_move.rs                            *)
(*                                                                         *)
(* "Io" stands for every FsError made from an io::Error.  ord is the order *)
(* in which read_dir yields names: a sequence holding every name once.     *)
(***************************************************************************)
MAX_DIRECTORY_DEPTH == 100

MAX_PARALLEL_COPIES == 16

\* A plausible slip: no entry is taken for a link.
is_link_like_never(meta) == FALSE

is_link_like(meta) == meta.kind = "link"

\* A plausible slip: the comparison is off by one.
exceeds_depth_off_by_one(depth) == depth >= MAX_DIRECTORY_DEPTH

\* A depth check that lets one more level through.
exceeds_depth_late(depth) == depth > MAX_DIRECTORY_DEPTH + 1

\* The depth check at the head of the loop of copy_dir_iterative.
exceeds_depth(depth) == depth > MAX_DIRECTORY_DEPTH

\* The names of S in the order ord.
InOrder(S, ord) == SelectSeq(ord, LAMBDA n : n \in S)

\* One entry of a directory in copy_dir_iterative: a link is skipped, a
\* subdirectory queued, a file copied.  [err, f, reads, pushed].
CopyEntry(st, src_path, dst_path, depth, pushed) ==
    LET Same(e, s, q) ==
            [err |-> e, f |-> s.f, reads |-> s.reads, pushed |-> q]
        Copied(c) == Same(IF c.err = "Ok" THEN "Ok" ELSE "Io", c, pushed)
        Typed(meta) ==
            IF meta.kind = "none" THEN Same("Io", st, pushed)
            ELSE IF is_link_like(meta) THEN Same("Ok", st, pushed)
            ELSE IF meta.kind = "dir"
            THEN Same("Ok", st,
                      Append(pushed, <<src_path, dst_path, depth + 1>>))
            ELSE Copied(fs_copy(st, src_path, dst_path))
    IN  Typed(symlink_metadata(st.f, src_path))

RECURSIVE CopyChildren(_, _, _, _, _, _)
\* The for loop of copy_dir_iterative over the entries of one directory.
CopyChildren(st, names, current_src, current_dst, depth, pushed) ==
    LET Rest(one) ==
            IF one.err # "Ok" THEN one
            ELSE CopyChildren([f |-> one.f, reads |-> one.reads], Tail(names),
                              current_src, current_dst, depth, one.pushed)
    IN  IF names = <<>>
        THEN [err |-> "Ok", f |-> st.f, reads |-> st.reads, pushed |-> pushed]
        ELSE Rest(CopyEntry(st, join(current_src, Head(names)),
                            join(current_dst, Head(names)), depth, pushed))

\* One iteration of the while loop of copy_dir_iterative, the queue not
\* empty: [err, f, reads, queue].
CopyDirStep(st, queue, ord) ==
    LET Out(e, f, reads, q) ==
            [err |-> e, f |-> f, reads |-> reads, queue |-> q]
        Walked(ch) == Out(ch.err, ch.f, ch.reads, Tail(queue) \o ch.pushed)
        Listed(mk, rd, current_src, current_dst, depth) ==
            IF rd.err # "Ok" THEN Out("Io", mk.f, st.reads, Tail(queue))
            ELSE Walked(CopyChildren([f |-> mk.f, reads |-> st.reads],
                                     InOrder(rd.names, ord), current_src,
                                     current_dst, depth, <<>>))
        Made(mk, current_src, current_dst, depth) ==
            IF mk.err # "Ok" THEN Out("Io", mk.f, st.reads, Tail(queue))
            ELSE Listed(mk, read_dir(mk.f, current_src), current_src,
                        current_dst, depth)
        Item(current_src, current_dst, depth) ==
            IF exceeds_depth(depth)
            THEN Out("DirectoryTooDeep", st.f, st.reads, Tail(queue))
            ELSE Made(create_dir_all(st.f, current_dst), current_src,
                      current_dst, depth)
    IN  Item(Head(queue)[1], Head(queue)[2], Head(queue)[3])

RECURSIVE CopyQueue(_, _, _)
\* The while loop of copy_dir_iterative over the work queue of
\* (source directory, destination directory, depth).
CopyQueue(st, queue, ord) ==
    LET Again(s) ==
            IF s.err # "Ok" THEN Done(s.err, s.f, s.reads)
            ELSE CopyQueue([f |-> s.f, reads |-> s.reads], s.queue, ord)
    IN  IF queue = <<>> THEN Done("Ok", st.f, st.reads)
        ELSE Again(CopyDirStep(st, queue, ord))

copy_dir_iterative(st, src, dst, ord) ==
    CopyQueue(st, <<<<src, dst, 0>>>>, ord)

copy_single_entry(st, src, dest, ord) ==
    LET Typed(name, meta) ==
            IF name = "" THEN Done("InvalidPath", st.f, st.reads)
            ELSE IF meta.kind = "none" THEN Done("Io", st.f, st.reads)
            ELSE IF is_link_like(meta) THEN Done("Ok", st.f, st.reads)
            ELSE IF meta.kind = "dir"
            THEN copy_dir_iterative(st, src, join(dest, name), ord)
            ELSE fs_copy(st, src, join(dest, name))
    IN  Typed(file_name(src), symlink_metadata(st.f, src))

\* The body of the for loop of copy_entries_sync for one source.
CopyOne(st, src, dest_path, ord) ==
    LET Typed(name, meta) ==
            IF name = "" THEN Done("InvalidPath", st.f, st.reads)
            ELSE IF meta.kind = "none" THEN Done("Io", st.f, st.reads)
            ELSE IF is_link_like(meta) THEN Done("Ok", st.f, st.reads)
            ELSE IF meta.kind = "dir"
            THEN copy_dir_iterative(st, src, join(dest_path, name), ord)
            ELSE IF src = join(dest_path, name)
            THEN Done("Ok", st.f, st.reads)
            ELSE fs_copy(st, src, join(dest_path, name))
    IN  Typed(file_name(src), symlink_metadata(st.f, src))

RECURSIVE CopyLoop(_, _, _, _)
\* The for loop of copy_entries_sync over the validated sources.
CopyLoop(st, srcs, dest_path, ord) ==
    LET Rest(one) ==
            IF one.err # "Ok" THEN one
            ELSE CopyLoop([f |-> one.f, reads |-> one.reads], Tail(srcs),
                          dest_path, ord)
    IN  IF srcs = <<>> THEN Done("Ok", st.f, st.reads)
        ELSE Rest(CopyOne(st, Head(srcs), dest_path, ord))

\* A plausible slip: the destination is validated, but not against the
\* sandbox.
ValidateBatch_unchecked_destination(f, sources, destination, cfg) ==
    LET Both(vs, vd) ==
            IF vs.err # "Ok"
            THEN [err |-> vs.err, paths |-> <<>>, dest |-> NoPath]
            ELSE IF vd.err # "Ok"
            THEN [err |-> vd.err, paths |-> <<>>, dest |-> NoPath]
            ELSE [err |-> "Ok", paths |-> vs.paths, dest |-> vd.path]
    IN  Both(validate_paths_sandboxed(f, sources, cfg),
             validate_path(f, destination))

\* The checks every batch command makes before its loop: the sources
\* (no-follow), then the destination (follow), each against the sandbox.
\* [err, paths, dest].
ValidateBatch(f, sources, destination, cfg) ==
    LET Both(vs, vd) ==
            IF vs.err # "Ok"
            THEN [err |-> vs.err, paths |-> <<>>, dest |-> NoPath]
            ELSE IF vd.err # "Ok"
            THEN [err |-> vd.err, paths |-> <<>>, dest |-> NoPath]
            ELSE [err |-> "Ok", paths |-> vs.paths, dest |-> vd.path]
    IN  Both(validate_paths_sandboxed(f, sources, cfg),
             validate_sandboxed(f, destination, cfg))

\* ValidateBatch and the checks that the destination is a directory.
CheckBatch(f, sources, destination, cfg) ==
    LET Dest(v) ==
            IF v.err # "Ok" THEN v
            ELSE IF ~exists(f, v.dest)
            THEN [err |-> "NotFound", paths |-> <<>>, dest |-> NoPath]
            ELSE IF ~is_dir(f, v.dest)
            THEN [err |-> "InvalidPath", paths |-> <<>>, dest |-> NoPath]
            ELSE v
    IN  Dest(ValidateBatch(f, sources, destination, cfg))

copy_entries_sync(f, sources, destination, cfg, ord) ==
    LET Checked(v) ==
            IF v.err # "Ok" THEN Done(v.err, f, {})
            ELSE CopyLoop([f |-> f, reads |-> {}], v.paths, v.dest, ord)
    IN  Checked(CheckBatch(f, sources, destination, cfg))

\* The unix fallback of move_entries_sync after EXDEV: copy_single_entry,
\* then fs::remove_dir_all on the source.
MoveFallback(st, src, dest_path, ord) ==
    LET Removed(cp, rm) ==
            Done(IF rm.err = "Ok" THEN "Ok" ELSE "Io", rm.f, cp.reads)
        Copied(cp) ==
            IF cp.err # "Ok" THEN cp
            ELSE Removed(cp, remove_dir_all(cp.f, src))
    IN  Copied(copy_single_entry(st, src, dest_path, ord))

\* The body of the for loop of move_entries_sync for one source.
MoveOne(st, src, dest_path, ord) ==
    LET Renamed(rn) ==
            IF rn.err = "Ok" THEN Done("Ok", rn.f, st.reads)
            ELSE IF rn.err = "EXDEV"
            THEN MoveFallback(st, src, dest_path, ord)
            ELSE Done("Io", st.f, st.reads)
        Named(name, target) ==
            IF name = "" THEN Done("InvalidPath", st.f, st.reads)
            ELSE IF src = target THEN Done("Ok", st.f, st.reads)
            ELSE IF exists(st.f, target) THEN Done("Ok", st.f, st.reads)
            ELSE Renamed(fs_rename(st.f, src, target))
    IN  Named(file_name(src), join(dest_path, file_name(src)))

RECURSIVE MoveLoop(_, _, _, _)
\* The for loop of move_entries_sync over the validated sources.
MoveLoop(st, srcs, dest_path, ord) ==
    LET Rest(one) ==
            IF one.err # "Ok" THEN one
            ELSE MoveLoop([f |-> one.f, reads |-> one.reads], Tail(srcs),
                          dest_path, ord)
    IN  IF srcs = <<>> THEN Done("Ok", st.f, st.reads)
        ELSE Rest(MoveOne(st, Head(srcs), dest_path, ord))

move_entries_sync(f, sources, destination, cfg, ord) ==
    LET Checked(v) ==
            IF v.err # "Ok" THEN Done(v.err, f, {})
            ELSE MoveLoop([f |-> f, reads |-> {}], v.paths, v.dest, ord)
    IN  Checked(CheckBatch(f, sources, destination, cfg))

(***************************************************************************)
(* commands/fs/delete.rs                                                   *)
(***************************************************************************)
is_reparse_point(meta) == IsWindows /\ meta.kind = "link"

RECURSIVE remove_dir_safe(_, _, _)
\* A plausible slip: the entry is typed by fs::metadata, which follows a
\* link, so that a link to a directory is entered.
RemoveEntry_following(f, entry_path, ord) ==
    LET Typed(meta) ==
            IF meta.kind = "none" THEN [err |-> "Io", f |-> f]
            ELSE IF meta.kind = "dir" THEN remove_dir_safe(f, entry_path, ord)
            ELSE remove_file(f, entry_path)
    IN  Typed(metadata(f, entry_path))

\* One entry of the directory in remove_dir_safe.
RemoveEntry(f, entry_path, ord) ==
    LET Typed(meta) ==
            IF meta.kind = "none" THEN [err |-> "Io", f |-> f]
            ELSE IF is_reparse_point(meta) \/ meta.kind = "link"
            THEN remove_file(f, entry_path)
            ELSE IF meta.kind = "dir" THEN remove_dir_safe(f, entry_path, ord)
            ELSE remove_file(f, entry_path)
    IN  Typed(symlink_metadata(f, entry_path))

RECURSIVE RemoveChildren(_, _, _, _)
\* The for loop of remove_dir_safe over the entries of path.
RemoveChildren(f, names, path, ord) ==
    LET Rest(one) ==
            IF one.err # "Ok" THEN [err |-> "Io", f |-> one.f]
            ELSE RemoveChildren(one.f, Tail(names), path, ord)
    IN  IF names = <<>> THEN [err |-> "Ok", f |-> f]
        ELSE Rest(RemoveEntry(f, join(path, Head(names)), ord))

remove_dir_safe(f, path, ord) ==
    LET Emptied(ch) == IF ch.err # "Ok" THEN ch ELSE remove_dir(ch.f, path)
        Listed(rd) ==
            IF rd.err # "Ok" THEN [err |-> "Io", f |-> f]
            ELSE Emptied(RemoveChildren(f, InOrder(rd.names, ord), path, ord))
    IN  Listed(read_dir(f, path))

\* A plausible slip: the link is resolved and its target removed.
delete_permanent_following(f, path, ord) ==
    remove_file(f, canonicalize(f, path))

delete_permanent(f, path, ord) ==
    LET Typed(meta) ==
            IF meta.kind = "none" THEN [err |-> "Io", f |-> f]
            ELSE IF is_reparse_point(meta) THEN remove_file(f, path)
            ELSE IF meta.kind = "link" THEN remove_file(f, path)
            ELSE IF meta.kind = "dir" THEN remove_dir_safe(f, path, ord)
            ELSE remove_file(f, path)
    IN  Typed(symlink_metadata(f, path))

\* trash::delete: the entry itself (never a symlink's target) leaves the
\* tree with everything physically inside it.
trash_delete(f, path) ==
    LET Trash(q) ==
            IF q = NoPath \/ Len(q) <= 1 THEN [err |-> "Io", f |-> f]
            ELSE [err |-> "Ok", f |-> Without(f, Subtree(f, q))]
    IN  Trash(Resolve(f, path, FALSE))

\* The body of the for loop of delete_entries_sync for one path.
DeleteOne(f, path, permanent, ord) ==
    IF ~exists(f, path) /\ symlink_metadata(f, path).kind = "none"
    THEN [err |-> "Ok", f |-> f]
    ELSE IF permanent THEN delete_permanent(f, path, ord)
    ELSE trash_delete(f, path)

RECURSIVE DeleteLoop(_, _, _, _)
\* The for loop of delete_entries_sync over the validated paths.
DeleteLoop(f, paths, permanent, ord) ==
    LET Rest(one) ==
            IF one.err # "Ok" THEN [err |-> "Io", f |-> one.f]
            ELSE DeleteLoop(one.f, Tail(paths), permanent, ord)
    IN  IF paths = <<>> THEN [err |-> "Ok", f |-> f]
        ELSE Rest(DeleteOne(f, Head(paths), permanent, ord))

delete_entries_sync(f, paths, permanent, cfg, ord) ==
    LET Valid(v) ==
            IF v.err # "Ok" THEN [err |-> v.err, f |-> f]
            ELSE DeleteLoop(f, v.paths, permanent, ord)
    IN  Valid(validate_paths_sandboxed(f, paths, cfg))

\* One step of the innermost activation of remove_dir_safe.  stack holds
\* the activations on the call stack, outermost first, each [path, names]:
\* its directory and the entries its for loop has still to visit.  A
\* subdirectory is entered by a call (a new activation), the end of the
\* loop removes the directory and returns to the caller, an error unwinds
\* every activation.  [err, f, stack].
RemoveDirStep(f, stack, ord) ==
    LET Out(e, g, s) == [err |-> e, f |-> g, stack |-> s]
        Removed(rm, rest) ==
            IF rm.err # "Ok" THEN Out("Io", rm.f, <<>>)
            ELSE Out("Ok", rm.f, rest)
        Entered(rd, entry_path, rest) ==
            IF rd.err # "Ok" THEN Out("Io", f, <<>>)
            ELSE Out("Ok", f,
                     Append(rest, [path |-> entry_path,
                                   names |-> InOrder(rd.names, ord)]))
        Typed(meta, entry_path, rest) ==
            IF meta.kind = "none" THEN Out("Io", f, <<>>)
            ELSE IF is_reparse_point(meta) \/ meta.kind = "link"
            THEN Removed(remove_file(f, entry_path), rest)
            ELSE IF meta.kind = "dir"
            THEN Entered(read_dir(f, entry_path), entry_path, rest)
            ELSE Removed(remove_file(f, entry_path), rest)
        Visit(entry_path, rest) ==
            Typed(symlink_metadata(f, entry_path), entry_path, rest)
        Frame(top, below) ==
            IF top.names = <<>> THEN Removed(remove_dir(f, top.path), below)
            ELSE Visit(join(top.path, Head(top.names)),
                       Append(below, [top EXCEPT !.names = Tail(@)]))
    IN  Frame(stack[Len(stack)], SubSeq(stack, 1, Len(stack) - 1))

(***************************************************************************)
(* commands/fs/write.rs                                                    *)
(***************************************************************************)
\* Path::parent is Some for every path but the root and the empty one.
has_parent(p) == Len(p) >= 1 /\ p # <<"/">>

\* The characters of a name.  The names of the model that are not listed
\* are made of letters only and count as one letter; "a\\0b" stands for
\* the name with a NUL between a and b.
Chars(name) ==
    CASE name = "" -> <<>>
      [] name = "." -> <<".">>
      [] name = ".." -> <<".", ".">>
      [] name = "a/b" -> <<"a", "/", "b">>
      [] name = "a\\b" -> <<"a", "\\", "b">>
      [] name = "a\\0b" -> <<"a", "NUL", "b">>
      [] name = "CON" -> <<"C", "O", "N">>
      [] name = "con" -> <<"c", "o", "n">>
      [] name = "Con. " -> <<"C", "o", "n", ".", " ">>
      [] name = "com1.txt" -> <<"c", "o", "m", "1", ".", "t", "x", "t">>
      [] name = "a:b" -> <<"a", ":", "b">>
      [] name = "n." -> <<"n", ".">>
      [] OTHER -> <<name>>

to_ascii_uppercase(c) ==
    CASE c = "c" -> "C" [] c = "o" -> "O" [] c = "n" -> "N" [] c = "m" -> "M"
      [] c = "t" -> "T" [] c = "x" -> "X" [] c = "a" -> "A" [] c = "b" -> "B"
      [] OTHER -> c

\* validate_windows_name on the characters s of a name.
validate_windows_name(s) ==
    LET contains(c) == \E i \in 1..Len(s) : s[i] = c
        INVALID_CHARS == {"<", ">", "\"", "|", "?", "*", ":"}
        Digits == {"1", "2", "3", "4", "5", "6", "7", "8", "9"}
        RESERVED ==
            {<<"C", "O", "N">>, <<"P", "R", "N">>, <<"A", "U", "X">>,
             <<"N", "U", "L">>}
            \cup {<<"C", "O", "M", d>> : d \in Digits}
            \cup {<<"L", "P", "T", d>> : d \in Digits}
        \* name.split('.').next(): what precedes the first dot
        Dots == {i \in 1..Len(s) : s[i] = "."}
        base_name ==
            IF Dots = {} THEN s
            ELSE SubSeq(s, 1, (CHOOSE i \in Dots :
                                   \A j \in Dots : i <= j) - 1)
        \* trim_end_matches([' ', '.'])
        Kept == {i \in 1..Len(base_name) : base_name[i] \notin {" ", "."}}
        trimmed ==
            IF Kept = {} THEN <<>>
            ELSE SubSeq(base_name, 1, CHOOSE i \in Kept :
                                          \A j \in Kept : j <= i)
        upper == [i \in 1..Len(trimmed) |-> to_ascii_uppercase(trimmed[i])]
    IN  IF contains(":") THEN "InvalidName"
        ELSE IF \E i \in 1..Len(s) : s[i] \in INVALID_CHARS
        THEN "InvalidName"
        ELSE IF upper \in RESERVED THEN "InvalidName"
        ELSE IF s # <<>> /\ s[Len(s)] \in {" ", "."} THEN "InvalidName"
        ELSE "Ok"

\* The check that accepts every name.
validate_filename_accepting(name) == "Ok"

\* validate_filename: the empty name, "." and "..", the names holding a
\* separator or a NUL, and the platform's rules.
validate_filename(name) ==
    LET s == Chars(name)
        contains(c) == \E i \in 1..Len(s) : s[i] = c
    IN  IF s = <<>> THEN "InvalidName"
        ELSE IF s = <<".">> \/ s = <<".", ".">> THEN "InvalidName"
        ELSE IF contains("/") \/ contains("\\") THEN "InvalidName"
        ELSE IF contains("NUL") THEN "InvalidName"
        ELSE IF IsWindows THEN validate_windows_name(s)
        ELSE "Ok"

\* validate_path, and validate_path_no_follow when it fails.
validate_parent_path(f, par_dir) ==
    LET Fallback(v, w) ==
            IF w.err # "Ok" THEN Result(w.err, NoPath, v.fsCalls + w.fsCalls)
            ELSE IF ~exists(f, w.path)
            THEN Result("NotFound", NoPath, v.fsCalls + w.fsCalls)
            ELSE IF ~is_dir(f, w.path)
            THEN Result("InvalidPath", NoPath, v.fsCalls + w.fsCalls)
            ELSE Result("Ok", w.path, v.fsCalls + w.fsCalls)
        First(v) ==
            IF v.err = "Ok" THEN v
            ELSE Fallback(v, validate_path_no_follow(f, par_dir))
    IN  First(validate_path(f, par_dir))

\* What create_directory_sync and create_file_sync do before they create:
\* [err, path], path the new entry's path.
NewEntryPath(f, path) ==
    LET Joined(name, new_path) ==
            IF exists(f, new_path)
            THEN [err |-> "AlreadyExists", path |-> NoPath]
            ELSE [err |-> "Ok", path |-> new_path]
        Parent(name, vp) ==
            IF vp.err # "Ok" THEN [err |-> vp.err, path |-> NoPath]
            ELSE Joined(name, join(vp.path, name))
        Named(name) ==
            IF name = "" THEN [err |-> "InvalidName", path |-> NoPath]
            ELSE IF validate_filename(name) # "Ok"
            THEN [err |-> "InvalidName", path |-> NoPath]
            ELSE Parent(name, validate_parent_path(f, parent(path)))
    IN  IF path = <<>> THEN [err |-> "InvalidPath", path |-> NoPath]
        ELSE IF ~has_parent(path) THEN [err |-> "InvalidPath", path |-> NoPath]
        ELSE Named(file_name(path))

create_directory_sync(f, path) ==
    LET New(n) == IF n.err # "Ok" THEN [err |-> n.err, f |-> f]
                  ELSE create_dir(f, n.path)
    IN  New(NewEntryPath(f, path))

create_file_sync(f, path) ==
    LET New(n) == IF n.err # "Ok" THEN [err |-> n.err, f |-> f]
                  ELSE file_create(f, n.path)
    IN  New(NewEntryPath(f, path))

rename_entry_sync(f, old_path, new_name) ==
    LET Renamed(rn) == IF rn.err # "Ok" THEN [err |-> "Io", f |-> f] ELSE rn
        Target(validated_old, new_path) ==
            IF exists(f, new_path) THEN [err |-> "AlreadyExists", f |-> f]
            ELSE Renamed(fs_rename(f, validated_old, new_path))
        Valid(v) ==
            IF v.err # "Ok" THEN [err |-> v.err, f |-> f]
            ELSE IF ~has_parent(v.path) THEN [err |-> "InvalidPath", f |-> f]
            ELSE Target(v.path, join(parent(v.path), new_name))
    IN  IF validate_filename(new_name) # "Ok"
        THEN [err |-> "InvalidName", f |-> f]
        ELSE Valid(validate_path_no_follow(f, old_path))

(***************************************************************************)
(* commands/fs/read.rs                                                     *)
(***************************************************************************)
\* A file's content value is its length in MiB.
MAX_CONTENT_FILE_SIZE == 10 * 1024 * 1024

FileLen(node) == node.data * 1024 * 1024

\* str::to_lowercase on the names of the model.
to_lowercase(name) ==
    CASE name = "B" -> "b" [] name = "C" -> "c" [] OTHER -> name

\* FileEntry::from_dir_entry for the entry name of the directory dir_path:
\* <<>> for None, <<entry>> for Some(entry).  lost holds the names whose
\* metadata cannot be read (DirEntry::metadata does not follow a link).
from_dir_entry(f, dir_path, name, lost) ==
    IF name \in lost THEN <<>>
    ELSE IF name = "\\xff" THEN <<>>
    ELSE <<[name |-> name, name_lower |-> to_lowercase(name),
            is_dir |-> NodeAt(f, join(dir_path, name)).kind = "dir"]>>

\* [err, entries]: the FileEntry values in the order returned.  ord is the
\* order of read_dir; sort_by is a stable sort.
read_directory_sync(f, path, cfg, ord, lost) ==
    LET Pos(n) == CHOOSE i \in 1..Len(AllNames) : AllNames[i] = n
        Less(a, b) ==
            IF a.is_dir # b.is_dir THEN a.is_dir
            ELSE Pos(a.name_lower) < Pos(b.name_lower)
        Sorted(es) ==
            LET Rank(i) ==
                    Cardinality({j \in 1..Len(es) :
                                    \/ Less(es[j], es[i])
                                    \/ ~Less(es[i], es[j]) /\ j < i})
            IN  [k \in 1..Len(es) |->
                    es[CHOOSE i \in 1..Len(es) : Rank(i) = k - 1]]
        RECURSIVE Collect(_, _)
        Collect(dir_path, names) ==
            IF names = <<>> THEN <<>>
            ELSE from_dir_entry(f, dir_path, Head(names), lost)
                     \o Collect(dir_path, Tail(names))
        Listed(rd, dir_path) ==
            IF rd.err # "Ok"
            THEN [err |-> "ReadDirectoryFailed", entries |-> <<>>]
            ELSE [err |-> "Ok",
                  entries |-> Sorted(Collect(dir_path,
                                             InOrder(rd.names, ord)))]
        Valid(v) == IF v.err # "Ok" THEN [err |-> v.err, entries |-> <<>>]
                    ELSE Listed(read_dir(f, v.path), Resolve(f, v.path, TRUE))
    IN  Valid(validate_sandboxed(f, path, cfg))

\* The closure of get_directory_stats: [err, names], the names listed.
get_directory_stats(f, path, cfg) ==
    LET Listed(rd) ==
            IF rd.err # "Ok" THEN [err |-> "ReadDirectoryFailed", names |-> {}]
            ELSE rd
        Valid(v) == IF v.err # "Ok" THEN [err |-> v.err, names |-> {}]
                    ELSE Listed(read_dir(f, v.path))
    IN  Valid(validate_sandboxed(f, path, cfg))

\* The closure of get_file_content: [err, reads].
get_file_content(f, path, cfg) ==
    LET Read(q) ==
            IF q = NoPath THEN [err |-> "NotFound", reads |-> {}]
            ELSE IF FileLen(f[q]) > MAX_CONTENT_FILE_SIZE
            THEN [err |-> "FileTooLarge", reads |-> {}]
            ELSE IF f[q].kind # "file" THEN [err |-> "Io", reads |-> {}]
            ELSE [err |-> "Ok", reads |-> {q}]
        Valid(v) == IF v.err # "Ok" THEN [err |-> v.err, reads |-> {}]
                    ELSE Read(Resolve(f, v.path, TRUE))
    IN  Valid(validate_sandboxed(f, path, cfg))

(***************************************************************************)
(* commands/search.rs, with validate_path of commands/file_ops.rs          *)
(***************************************************************************)
\* file_ops::validate_path: absolute and canonicalizable, nothing else.
file_ops_validate_path(f, p) ==
    LET Canonical(canonical) ==
            IF canonical = NoPath THEN Result("InvalidPath", NoPath, 1)
            ELSE Result("Ok", canonical, 1)
    IN  IF ~is_absolute(p) THEN Result("PathNotAbsolute", NoPath, 0)
        ELSE Canonical(canonicalize(f, p))

SEARCH_MAX_DEPTH == 10

\* WalkDir::new(root).max_depth(10).follow_links(false): the root and what
\* is physically below it, symlinks yielded and never entered.
WalkDir(f, root) ==
    {q \in Subtree(f, root) : Len(q) - Len(root) <= SEARCH_MAX_DEPTH}

\* str::contains on the names and queries of the model: the empty query,
\* or a whole name that is part of no other name.
name_contains(name, query) == query = "" \/ name = query

\* search_files_sync without content search or extension filter and with
\* the default max_results: [err, visited, results].
search_files_sync(f, search_path, query) ==
    LET Found(walk) ==
            [err |-> "Ok", visited |-> walk,
             results |-> {q \in walk : name_contains(file_name(q), query)}]
        Valid(v) ==
            IF v.err # "Ok"
            THEN [err |-> v.err, visited |-> {}, results |-> {}]
            ELSE Found(WalkDir(f, v.path))
    IN  Valid(file_ops_validate_path(f, search_path))

\* The entries of WalkDir in the order its iterator yields them: depth
\* first, a directory before its entries, the entries of one directory in
\* the order ord of read_dir.
WalkOrder(f, root, ord) ==
    LET RECURSIVE Visit(_)
        RECURSIVE Each(_, _, _, _)
        Visit(q) ==
            IF Len(q) - Len(root) > SEARCH_MAX_DEPTH THEN <<>>
            ELSE <<q>> \o
                 (IF f[q].kind # "dir" THEN <<>>
                  ELSE Each(q, InOrder({r[Len(r)] : r \in Children(f, q)},
                                       ord),
                            1, Cardinality(Children(f, q))))
        \* The walks of the entries names[lo..hi] of q, one after the other.
        Each(q, names, lo, hi) ==
            IF lo > hi THEN <<>>
            ELSE IF lo = hi THEN Visit(join(q, names[lo]))
            ELSE Each(q, names, lo, (lo + hi) \div 2)
                     \o Each(q, names, (lo + hi) \div 2 + 1, hi)
    IN  Visit(root)

DEFAULT_MAX_RESULTS == 500

\* The value that always ignores the option.
max_results_of_default(max_results) == DEFAULT_MAX_RESULTS

\* options.max_results.unwrap_or(500): the option is {} for None and {k}
\* for Some(k).
max_results_of(max_results) ==
    IF max_results = {} THEN DEFAULT_MAX_RESULTS
    ELSE CHOOSE k \in max_results : TRUE

(***************************************************************************)
(* The filesystems, policies and inputs of the model.                      *)
(***************************************************************************)
\* The function that maps e[1] to e[2] for every pair e of S.
MkFs(S) == [q \in {e[1] : e \in S} |-> (CHOOSE e \in S : e[1] = q)[2]]

\* /root is the sandbox, /out lies outside it.  /root/d is a tree with a
\* link out of it at the top (l) and deeper (s/l); /root/l is a link to the
\* file /out/f; /root/k is a link to the directory /out; /root/j is a link
\* to the directory /root/x; /out/in is a link from outside into the
\* sandbox; /root/m is the mount point of a second device.
BaseTree ==
    { <<<<"/">>, Dir>>,
      <<<<"/", "root">>, Dir>>,
      <<<<"/", "root", "d">>, Dir>>,
      <<<<"/", "root", "d", "f">>, File(1)>>,
      <<<<"/", "root", "d", "l">>, Link(<<"/", "out">>)>>,
      <<<<"/", "root", "d", "s">>, Dir>>,
      <<<<"/", "root", "d", "s", "g">>, File(11)>>,
      <<<<"/", "root", "d", "s", "l">>, Link(<<"/", "out", "f">>)>>,
      <<<<"/", "root", "t">>, Dir>>,
      <<<<"/", "root", "m">>, Dir>>,
      <<<<"/", "root", "l">>, Link(<<"/", "out", "f">>)>>,
      <<<<"/", "root", "k">>, Link(<<"/", "out">>)>>,
      <<<<"/", "root", "j">>, Link(<<"/", "root", "x">>)>>,
      <<<<"/", "root", "x">>, Dir>>,
      <<<<"/", "root", "x", "f">>, File(3)>>,
      <<<<"/", "out">>, Dir>>,
      <<<<"/", "out", "f">>, File(4)>>,
      <<<<"/", "out", "in">>, Link(<<"/", "root", "d">>)>> }

\* Entries already in the destination /root/t: a file f and a file where
\* the copy of the directory d would go.
OccupiedTree ==
    { <<<<"/", "root", "t", "f">>, File(7)>>,
      <<<<"/", "root", "t", "d">>, File(8)>> }

InitialTrees == {MkFs(BaseTree), MkFs(BaseTree \cup OccupiedTree)}

Policy(roots, patterns) ==
    [allowed_roots |-> roots, denied_patterns |-> patterns]

Policies ==
    { Policy(<<<<"/", "root">>>>, <<>>),
      Policy(<<<<"/", "root">>>>, <<<<"/", "root", "x", "**">>>>),
      Policy(<<<<"/", "root", "t">>, <<"/", "root", "d">>>>,
             <<<<"***">>, <<"**", "s", "**">>>>),
      Policy(<<<<"/", "root">>, <<"/", "out">>>>, <<>>) }

\* Paths given to the validation functions: existing and missing ones,
\* inside and outside the sandbox, through links, with "..", relative.
PathInputs ==
    { <<"/", "root", "d", "f">>, <<"/", "root", "d", "s", "g">>,
      <<"/", "root", "l">>, <<"/", "root", "k", "f">>,
      <<"/", "root", "j", "f">>, <<"/", "root", "x", "f">>,
      <<"/", "out", "f">>, <<"/", "out", "nx">>,
      <<"/", "root", "..", "out", "f">>, <<"/", "root", "nx", "..", "d">>,
      <<"d", "f">>, <<"d", "..", "f">> }

\* Batches of copy_entries: none, one source, two sources.
Batches ==
    { <<>>, <<<<"/", "root", "d">>>>, <<<<"/", "root", "d", "f">>>>,
      <<<<"/", "root", "l">>>>, <<<<"/", "root", "k", "f">>>>,
      <<<<"/", "root", "d", "f">>, <<"/", "root", "x", "f">>>>,
      <<<<"/", "root", "d", "f">>, <<"/", "out", "f">>>>,
      <<<<"/", "root", "d">>, <<"/", "root", "..", "out", "f">>>> }

DestInputs ==
    {<<"/", "root", "t">>, <<"/", "out">>, <<"/", "root", "d", "f">>}

MoveBatches ==
    { <<<<"/", "root", "d">>>>, <<<<"/", "root", "d", "f">>>>,
      <<<<"/", "root", "l">>>>, <<<<"/", "root", "k", "f">>>>,
      <<<<"/", "root", "d", "f">>, <<"/", "out", "f">>>> }

\* /root/m is on another device than the sources.
MoveDestInputs == {<<"/", "root", "t">>, <<"/", "root", "m">>}

DeleteBatches ==
    { <<<<"/", "root", "d">>>>, <<<<"/", "root", "d", "f">>>>,
      <<<<"/", "root", "l">>>>, <<<<"/", "root", "k", "f">>>>,
      <<<<"/", "root", "d", "f">>, <<"/", "out", "f">>>>,
      <<<<"/", "root", "x", "f">>, <<"/", "root", "nx">>>> }

\* Batches and destinations of copy_entries_parallel.
ParBatches ==
    { <<>>, <<<<"/", "root", "d", "f">>, <<"/", "root", "l">>>>,
      <<<<"/", "root", "d">>, <<"/", "root", "x", "f">>>>,
      <<<<"/", "root", "d", "f">>, <<"/", "out", "f">>>> }

ParDestInputs == {<<"/", "root", "t">>, <<"/", "out">>}

CreateInputs ==
    { <<"/", "root", "t", "n">>, <<"/", "root", "d", "f">>,
      <<"/", "root", "k", "n">>, <<"/", "out", "n">>,
      <<"/", "root", "nx", "n">>, <<"/", "root", "t", "..">>, <<"n">> }

RenameInputs ==
    { <<"/", "root", "d", "f">>, <<"/", "root", "l">>, <<"/", "out", "f">>,
      <<"/", "root", "k", "f">>, <<"/", "root", "nx">> }

NameInputs == {"n", "f", ".."}

ReadInputs ==
    { <<"/", "root", "d">>, <<"/", "root", "d", "f">>,
      <<"/", "root", "d", "s", "g">>, <<"/", "root", "k", "f">>,
      <<"/", "root", "x", "f">>, <<"/", "out", "f">> }

SearchInputs ==
    { <<"/", "root", "d">>, <<"/", "root", "k">>, <<"/", "out">>,
      <<"/", "out", "nx">>, <<"d", "f">> }

QueryInputs == {"", "f"}

Reverse(q) == [i \in 1..Len(q) |-> q[Len(q) + 1 - i]]

\* The orders in which read_dir may yield the names.
DirOrders == {AllNames, Reverse(AllNames)}

\* The trees of SpecDeep: the source /root/d holds a chain of n nested
\* directories c, with a file in the last one (and, when branch, a file and
\* a link beside the first one); the destination /root/t is empty.
Chain(n) == [i \in 1..n |-> "c"]

DeepTree(n, branch) ==
    LET src == <<"/", "root", "d">>
    IN  MkFs({ <<<<"/">>, Dir>>, <<<<"/", "root">>, Dir>>, <<src, Dir>>,
               <<<<"/", "root", "t">>, Dir>>, <<<<"/", "out">>, Dir>>,
               <<src \o Chain(n) \o <<"f">>, File(2)>> }
             \cup {<<src \o Chain(i), Dir>> : i \in 1..n}
             \cup IF branch
                  THEN { <<src \o <<"f">>, File(1)>>,
                         <<src \o <<"l">>, Link(<<"/", "out">>)>> }
                  ELSE {})

DeepTrees ==
    {DeepTree(n, branch) : n \in MinNesting..MaxNesting, branch \in BOOLEAN}

(***************************************************************************)
(* State: fs the filesystem, config the SecurityConfig behind the RwLock,  *)
(* last the record of the command that returned last, nops the number of   *)
(* commands issued, par the running copy_entries_parallel, job the running *)
(* copy_dir_iterative of a copy_entries that is followed step by step.     *)
(***************************************************************************)
NoCall ==
    [op |-> "none", paths |-> <<>>, dst |-> NoPath, flag |-> FALSE,
     name |-> "", cfg |-> Policy(<<>>, <<>>), pre |-> <<>>, post |-> <<>>,
     res |-> "Ok", out |-> NoPath, fsCalls |-> 0, reads |-> {},
     visited |-> {}, depth |-> 0, lock |-> "Ok",
     max_results |-> {}, events |-> <<>>]

\* The record of a returned command: the fields given in r over NoCall.
Call(r) == r @@ NoCall

\* copy_entries_parallel: total, the sources not yet spawned, the free
\* permits of the semaphore, the shared counter, the tasks [src, pc, res,
\* current] in spawn order, the tasks in the order they finished, the
\* number of tasks joined, the copy-progress events emitted, what
\* available_parallelism reported, and cfg, the clone of the policy the
\* command took at its start.
IdlePar ==
    [phase |-> "idle", total |-> 0, pending |-> <<>>, dest |-> NoPath,
     permits |-> 0, counter |-> 0, tasks |-> <<>>, finished |-> <<>>,
     joined |-> 0, events |-> <<>>, reads |-> {}, pre |-> <<>>,
     paths |-> <<>>, dst |-> NoPath, cfg |-> Policy(<<>>, <<>>),
     cores |-> 0]

\* copy_dir_iterative followed step by step: the work queue, the files
\* read, and the call it belongs to.  remove_dir_safe followed step by
\* step: the activations of remove_dir_safe on the call stack and the
\* largest number of them so far.  search_files_sync followed step by
\* step: queue holds the entries of the walk not yet handed to a worker;
\* the options, found_count and should_stop, the workers [pc, entry] of
\* the parallel bridge and the results collected; search_files_stream has
\* the counter scanned and the events emitted besides.  The watcher
\* commands: watchers is the table of WatcherState, a set of <<key, w>>
\* with w the watcher stored under key; live holds the <<key, w>> of every
\* watcher that has been created and not dropped; made counts the watchers
\* created; calls holds the watch_directory calls in flight.
IdleJob ==
    [phase |-> "idle", queue |-> <<>>, reads |-> {}, pre |-> <<>>,
     paths |-> <<>>, dst |-> NoPath, stack |-> <<>>, depth |-> 0,
     query |-> "", max_results |-> {}, found_count |-> 0,
     should_stop |-> FALSE, workers |-> <<>>, results |-> <<>>,
     scanned |-> 0, events |-> <<>>, watchers |-> {}, live |-> {},
     made |-> 0, calls |-> <<>>]

Init ==
    /\ fs \in InitialTrees
    /\ config \in Policies
    /\ last = NoCall
    /\ nops = 0
    /\ par = IdlePar
    /\ job = IdleJob

\* The front end issues a command when the previous one has returned, and
\* at most MaxOps commands.
CanIssue ==
    /\ nops < MaxOps
    /\ par.phase \in {"idle", "returned"}
    /\ job.phase = "idle"

\* set_security_config: the whole policy is replaced under the write lock.
set_security_config(cfg) ==
    /\ CanIssue
    /\ config' = cfg
    /\ last' = Call([op |-> "set_security_config", cfg |-> cfg, pre |-> fs,
                     post |-> fs])
    /\ nops' = nops + 1
    /\ UNCHANGED <<fs, par, job>>

\* One call of a validation function of validation.rs.
Validate(fn, p) ==
    /\ CanIssue
    /\ LET Returned(v) ==
               last' = Call([op |-> fn, paths |-> <<p>>, cfg |-> config,
                             pre |-> fs, post |-> fs, res |-> v.err,
                             out |-> v.path, fsCalls |-> v.fsCalls])
       IN  Returned(CASE fn = "validate_path" -> validate_path(fs, p)
                      [] fn = "validate_path_no_follow" ->
                            validate_path_no_follow(fs, p)
                      [] fn = "validate_sandboxed" ->
                            validate_sandboxed(fs, p, config)
                      [] OTHER -> validate_sandboxed_no_follow(fs, p, config))
    /\ nops' = nops + 1
    /\ UNCHANGED <<fs, config, par, job>>

copy_entries(sources, destination, ord) ==
    /\ CanIssue
    /\ LET Returned(r) ==
               /\ fs' = r.f
               /\ last' = Call([op |-> "copy_entries", paths |-> sources,
                                dst |-> destination, cfg |-> config,
                                pre |-> fs, post |-> r.f, res |-> r.err,
                                reads |-> r.reads])
       IN  Returned(copy_entries_sync(fs, sources, destination, config, ord))
    /\ nops' = nops + 1
    /\ UNCHANGED <<config, par, job>>

move_entries(sources, destination, ord) ==
    /\ CanIssue
    /\ LET Returned(r) ==
               /\ fs' = r.f
               /\ last' = Call([op |-> "move_entries", paths |-> sources,
                                dst |-> destination, cfg |-> config,
                                pre |-> fs, post |-> r.f, res |-> r.err,
                                reads |-> r.reads])
       IN  Returned(move_entries_sync(fs, sources, destination, config, ord))
    /\ nops' = nops + 1
    /\ UNCHANGED <<config, par, job>>

delete_entries(paths, permanent, ord) ==
    /\ CanIssue
    /\ LET Returned(r) ==
               /\ fs' = r.f
               /\ last' = Call([op |-> "delete_entries", paths |-> paths,
                                flag |-> permanent, cfg |-> config,
                                pre |-> fs, post |-> r.f, res |-> r.err])
       IN  Returned(delete_entries_sync(fs, paths, permanent, config, ord))
    /\ nops' = nops + 1
    /\ UNCHANGED <<config, par, job>>

create_directory(path) ==
    /\ CanIssue
    /\ LET Returned(r) ==
               /\ fs' = r.f
               /\ last' = Call([op |-> "create_directory", paths |-> <<path>>,
                                cfg |-> config, pre |-> fs, post |-> r.f,
                                res |-> r.err])
       IN  Returned(create_directory_sync(fs, path))
    /\ nops' = nops + 1
    /\ UNCHANGED <<config, par, job>>

create_file(path) ==
    /\ CanIssue
    /\ LET Returned(r) ==
               /\ fs' = r.f
               /\ last' = Call([op |-> "create_file", paths |-> <<path>>,
                                cfg |-> config, pre |-> fs, post |-> r.f,
                                res |-> r.err])
       IN  Returned(create_file_sync(fs, path))
    /\ nops' = nops + 1
    /\ UNCHANGED <<config, par, job>>

rename_entry(old_path, new_name) ==
    /\ CanIssue
    /\ LET Returned(r) ==
               /\ fs' = r.f
               /\ last' = Call([op |-> "rename_entry", paths |-> <<old_path>>,
                                name |-> new_name, cfg |-> config,
                                pre |-> fs, post |-> r.f, res |-> r.err])
       IN  Returned(rename_entry_sync(fs, old_path, new_name))
    /\ nops' = nops + 1
    /\ UNCHANGED <<config, par, job>>

read_directory(path, ord, lost) ==
    /\ CanIssue
    /\ LET Returned(r) ==
               last' = Call([op |-> "read_directory", paths |-> <<path>>,
                             cfg |-> config, pre |-> fs, post |-> fs,
                             res |-> r.err, out |-> r.entries,
                             reads |-> lost])
       IN  Returned(read_directory_sync(fs, path, config, ord, lost))
    /\ nops' = nops + 1
    /\ UNCHANGED <<fs, config, par, job>>

directory_stats(path) ==
    /\ CanIssue
    /\ last' = Call([op |-> "get_directory_stats", paths |-> <<path>>,
                     cfg |-> config, pre |-> fs, post |-> fs,
                     res |-> get_directory_stats(fs, path, config).err])
    /\ nops' = nops + 1
    /\ UNCHANGED <<fs, config, par, job>>

file_content(path) ==
    /\ CanIssue
    /\ LET Returned(r) ==
               last' = Call([op |-> "get_file_content", paths |-> <<path>>,
                             cfg |-> config, pre |-> fs, post |-> fs,
                             res |-> r.err, reads |-> r.reads])
       IN  Returned(get_file_content(fs, path, config))
    /\ nops' = nops + 1
    /\ UNCHANGED <<fs, config, par, job>>

search_files(search_path, query) ==
    /\ CanIssue
    /\ LET Returned(r) ==
               last' = Call([op |-> "search_files", paths |-> <<search_path>>,
                             name |-> query, cfg |-> config, pre |-> fs,
                             post |-> fs, res |-> r.err,
                             visited |-> r.visited])
       IN  Returned(search_files_sync(fs, search_path, query))
    /\ nops' = nops + 1
    /\ UNCHANGED <<fs, config, par, job>>

Clamp(n, lo, hi) == IF n < lo THEN lo ELSE IF n > hi THEN hi ELSE n

\* The record of copy_entries_parallel returning res: post is the
\* filesystem at the moment of the return.
ParReturn(p, res) ==
    Call([op |-> "copy_entries_parallel", paths |-> p.paths, dst |-> p.dst,
          cfg |-> p.cfg, pre |-> p.pre, post |-> fs, res |-> res,
          reads |-> p.reads])

\* copy_entries_parallel, its first line: get_config clones the policy.
\* cores is what available_parallelism reports.
copy_entries_parallel(sources, destination, cores) ==
    /\ CanIssue
    /\ \A i \in 1..Len(par.tasks) : par.tasks[i].pc # "copy"
    /\ par' = [IdlePar EXCEPT !.phase = "sources", !.pre = fs,
                              !.paths = sources, !.dst = destination,
                              !.cfg = config, !.cores = cores]
    /\ nops' = nops + 1
    /\ UNCHANGED <<fs, config, last, job>>

\* The shared policy read again at every validation.
ParConfig_shared == config

\* The policy copy_entries_parallel validates with: its clone.
ParConfig == par.cfg

\* copy_entries_parallel up to its spawn loop: the validation of the
\* sources, then that of the destination, total and the semaphore.
ParValidate ==
    /\ par.phase \in {"sources", "destination"}
    /\ LET Returned(e) ==
               /\ last' = ParReturn(par, e)
               /\ par' = [par EXCEPT !.phase = "returned"]
           Sources(vs) ==
               IF vs.err # "Ok" THEN Returned(vs.err)
               ELSE /\ par' = [par EXCEPT !.phase = "destination",
                                          !.pending = vs.paths]
                    /\ last' = last
           Destination(vd) ==
               IF vd.err # "Ok" THEN Returned(vd.err)
               ELSE IF Len(par.pending) = 0 THEN Returned("Ok")
               ELSE /\ par' = [par EXCEPT
                                  !.phase = "running",
                                  !.total = Len(par.pending),
                                  !.dest = vd.path,
                                  !.permits = Clamp(par.cores, 1,
                                                    MAX_PARALLEL_COPIES)]
                    /\ last' = last
       IN  IF par.phase = "sources"
           THEN Sources(validate_paths_sandboxed(fs, par.paths, ParConfig))
           ELSE Destination(validate_sandboxed(fs, par.dst, ParConfig))
    /\ UNCHANGED <<fs, config, nops, job>>

\* The spawn loop without the semaphore: the task is spawned at once.
ParSpawn_without_permit ==
    /\ par.phase = "running"
    /\ par.pending # <<>>
    /\ par' = [par EXCEPT !.permits = @ - 1,
                          !.pending = Tail(@),
                          !.tasks = Append(@, [src |-> Head(par.pending),
                                               pc |-> "copy", res |-> "Ok",
                                               current |-> 0])]
    /\ UNCHANGED <<fs, config, last, nops, job>>

\* The spawn loop: a permit is acquired, then the task is spawned.
ParSpawn ==
    /\ par.phase = "running"
    /\ par.pending # <<>>
    /\ par.permits > 0
    /\ par' = [par EXCEPT !.permits = @ - 1,
                          !.pending = Tail(@),
                          !.tasks = Append(@, [src |-> Head(par.pending),
                                               pc |-> "copy", res |-> "Ok",
                                               current |-> 0])]
    /\ UNCHANGED <<fs, config, last, nops, job>>

\* The blocking closure of task i: copy_single_entry.  After the command
\* has returned the closure still runs, the rest of its task does not.
ParCopy(i, ord) ==
    /\ i \in 1..Len(par.tasks)
    /\ par.tasks[i].pc = "copy"
    /\ LET Copied(r) ==
               /\ fs' = r.f
               /\ par' = [par EXCEPT !.reads = r.reads,
                                     !.tasks[i].res = r.err,
                                     !.tasks[i].pc =
                                         IF par.phase = "running" THEN "count"
                                         ELSE "aborted"]
       IN  Copied(copy_single_entry([f |-> fs, reads |-> par.reads],
                                    par.tasks[i].src, par.dest, ord))
    /\ UNCHANGED <<config, last, nops, job>>

\* counter.fetch_add(1) + 1 of task i.
ParCount(i) ==
    /\ i \in 1..Len(par.tasks)
    /\ par.tasks[i].pc = "count"
    /\ par' = [par EXCEPT !.counter = @ + 1,
                          !.tasks[i].current = par.counter + 1,
                          !.tasks[i].pc = "emit"]
    /\ UNCHANGED <<fs, config, last, nops, job>>

\* A copy_entries_parallel task that emits copy-progress at every
\* completion.
ParEmit_every_completion(i) ==
    /\ i \in 1..Len(par.tasks)
    /\ par.tasks[i].pc = "emit"
    /\ par' = [par EXCEPT !.events =
                              Append(@, [current |-> par.tasks[i].current,
                                         total |-> par.total,
                                         file |-> par.tasks[i].src]),
                          !.tasks[i].pc = "done",
                          !.finished = Append(@, i),
                          !.permits = @ + 1]
    /\ UNCHANGED <<fs, config, last, nops, job>>

\* The progress event of task i and its end, which drops the permit.
ParEmit(i) ==
    /\ i \in 1..Len(par.tasks)
    /\ par.tasks[i].pc = "emit"
    /\ par' = [par EXCEPT !.events =
                              IF par.tasks[i].current = par.total
                                 \/ par.tasks[i].current % 5 = 0
                              THEN Append(@, [current |-> par.tasks[i].current,
                                              total |-> par.total,
                                              file |-> par.tasks[i].src])
                              ELSE @,
                          !.tasks[i].pc = "done",
                          !.finished = Append(@, i),
                          !.permits = @ + 1]
    /\ UNCHANGED <<fs, config, last, nops, job>>

\* The join loop: the next finished task; its error ends the command, and
\* so does the end of the last task.
ParJoin ==
    /\ par.phase = "running"
    /\ par.pending = <<>>
    /\ par.joined < Len(par.finished)
    /\ LET Joined(t) ==
               IF t.res # "Ok"
               THEN /\ last' = ParReturn(par, t.res)
                    /\ par' = [par EXCEPT !.joined = @ + 1,
                                          !.phase = "returned"]
               ELSE IF par.joined + 1 = par.total
               THEN /\ last' = ParReturn(par, "Ok")
                    /\ par' = [par EXCEPT !.joined = @ + 1,
                                          !.phase = "returned"]
               ELSE /\ par' = [par EXCEPT !.joined = @ + 1]
                    /\ last' = last
       IN  Joined(par.tasks[par.finished[par.joined + 1]])
    /\ UNCHANGED <<fs, config, nops, job>>

\* copy_entries_sync on one source directory up to the first iteration of
\* copy_dir_iterative.
copy_entries_begin(src, destination) ==
    /\ CanIssue
    /\ LET Begun(v) ==
               IF v.err # "Ok"
               THEN /\ last' = Call([op |-> "copy_entries", paths |-> <<src>>,
                                     dst |-> destination, cfg |-> config,
                                     pre |-> fs, post |-> fs, res |-> v.err])
                    /\ job' = job
               ELSE /\ file_name(v.paths[1]) # ""
                    /\ symlink_metadata(fs, v.paths[1]).kind = "dir"
                    /\ job' = [IdleJob EXCEPT
                                  !.phase = "copying",
                                  !.queue = <<<<v.paths[1],
                                                join(v.dest,
                                                     file_name(v.paths[1])),
                                                0>>>>,
                                  !.pre = fs, !.paths = <<src>>,
                                  !.dst = destination]
                    /\ last' = last
       IN  Begun(CheckBatch(fs, <<src>>, destination, config))
    /\ nops' = nops + 1
    /\ UNCHANGED <<fs, config, par>>

\* One iteration of the while loop of copy_dir_iterative; the error or the
\* empty queue ends copy_dir_iterative and with it the command.
copy_dir_iterative_step(ord) ==
    /\ job.phase = "copying"
    /\ LET Stepped(s) ==
               /\ fs' = s.f
               /\ IF s.err # "Ok" \/ s.queue = <<>>
                  THEN /\ last' = Call([op |-> "copy_entries",
                                        paths |-> job.paths, dst |-> job.dst,
                                        cfg |-> config, pre |-> job.pre,
                                        post |-> s.f, res |-> s.err,
                                        reads |-> s.reads])
                       /\ job' = IdleJob
                  ELSE /\ job' = [job EXCEPT !.queue = s.queue,
                                             !.reads = s.reads]
                       /\ last' = last
       IN  Stepped(CopyDirStep([f |-> fs, reads |-> job.reads], job.queue,
                               ord))
    /\ UNCHANGED <<config, nops, par>>

ValidationFns ==
    {"validate_path", "validate_path_no_follow", "validate_sandboxed",
     "validate_sandboxed_no_follow"}

Next ==
    \/ \E cfg \in Policies : set_security_config(cfg)
    \/ \E fn \in ValidationFns, p \in PathInputs : Validate(fn, p)
    \/ \E b \in Batches, d \in DestInputs, ord \in DirOrders :
          copy_entries(b, d, ord)
    \/ \E b \in MoveBatches, d \in MoveDestInputs, ord \in DirOrders :
          move_entries(b, d, ord)
    \/ \E b \in DeleteBatches, permanent \in BOOLEAN, ord \in DirOrders :
          delete_entries(b, permanent, ord)
    \/ \E p \in CreateInputs : create_directory(p)
    \/ \E p \in CreateInputs : create_file(p)
    \/ \E p \in RenameInputs, n \in NameInputs : rename_entry(p, n)
    \/ \E p \in ReadInputs : read_directory(p, AllNames, {})
    \/ \E p \in ReadInputs : directory_stats(p)
    \/ \E p \in ReadInputs : file_content(p)
    \/ \E p \in SearchInputs, q \in QueryInputs : search_files(p, q)
    \/ \E b \in ParBatches, d \in ParDestInputs, cores \in 1..MaxCores :
          copy_entries_parallel(b, d, cores)
    \/ ParValidate
    \/ ParSpawn
    \/ \E i \in 1..Len(par.tasks), ord \in DirOrders : ParCopy(i, ord)
    \/ \E i \in 1..Len(par.tasks) : ParCount(i)
    \/ \E i \in 1..Len(par.tasks) : ParEmit(i)
    \/ ParJoin

Spec == Init /\ [][Next]_vars

\* The copy of a deep tree, followed step by step.
InitDeep ==
    /\ fs \in DeepTrees
    /\ config = Policy(<<<<"/", "root">>>>, <<>>)
    /\ last = NoCall
    /\ nops = 0
    /\ par = IdlePar
    /\ job = IdleJob

NextDeep ==
    \/ \E d \in {<<"/", "root", "t">>, <<"/", "out">>} :
          copy_entries_begin(<<"/", "root", "d">>, d)
    \/ \E ord \in DirOrders : copy_dir_iterative_step(ord)

SpecDeep == InitDeep /\ [][NextDeep]_vars

\* set_security_config on another thread while copy_entries_parallel is in
\* flight: the write lock is free once get_config has returned the clone.
set_security_config_in_flight(cfg) ==
    /\ par.phase \in {"sources", "destination", "running"}
    /\ cfg # config
    /\ config' = cfg
    /\ UNCHANGED <<fs, last, nops, par, job>>

\* What a command returns when the lock it needs is poisoned: get_config,
\* set_security_config, and the watch table of watch_directory,
\* unwatch_directory and unwatch_all (PoisonError's text).
LockError(cmd) ==
    IF cmd = "set_security_config" THEN "Failed to acquire config lock"
    ELSE IF cmd \in {"watch_directory", "unwatch_directory", "unwatch_all"}
    THEN "poisoned lock: another task failed inside"
    ELSE "Failed to read security config"

\* A command whose lock acquisition fails: map_err and the ? operator
\* return before anything else is done.
lock_poisoned(cmd) ==
    /\ CanIssue
    /\ last' = Call([op |-> cmd, cfg |-> config, pre |-> fs, post |-> fs,
                     res |-> LockError(cmd), lock |-> "Poisoned"])
    /\ nops' = nops + 1
    /\ UNCHANGED <<fs, config, par, job>>

\* copy_entries_parallel and its tasks, on batches of up to MaxSources
\* sources.
InitPar ==
    /\ fs \in InitialTrees
    /\ config = Policy(<<<<"/", "root">>>>, <<>>)
    /\ last = NoCall
    /\ nops = 0
    /\ par = IdlePar
    /\ job = IdleJob

NextPar ==
    \/ \E b \in ParBatches \cup
                  {[i \in 1..MaxSources |-> <<"/", "root", "d", "f">>]},
          d \in ParDestInputs, cores \in 1..MaxCores :
          copy_entries_parallel(b, d, cores)
    \/ ParValidate
    \/ ParSpawn
    \/ \E i \in 1..Len(par.tasks), ord \in DirOrders : ParCopy(i, ord)
    \/ \E i \in 1..Len(par.tasks) : ParCount(i)
    \/ \E i \in 1..Len(par.tasks) : ParEmit(i)
    \/ ParJoin

SpecPar == InitPar /\ [][NextPar]_vars

\* The commands on the shared state: copy_entries_parallel while the
\* policy is replaced, and commands that find their lock poisoned.
NextShared ==
    \/ \E b \in ParBatches, d \in ParDestInputs, cores \in 1..MaxCores :
          copy_entries_parallel(b, d, cores)
    \/ ParValidate
    \/ ParSpawn
    \/ \E i \in 1..Len(par.tasks), ord \in DirOrders : ParCopy(i, ord)
    \/ \E i \in 1..Len(par.tasks) : ParCount(i)
    \/ \E i \in 1..Len(par.tasks) : ParEmit(i)
    \/ ParJoin
    \/ \E cfg \in Policies : set_security_config_in_flight(cfg)
    \/ \E cmd \in {"copy_entries_parallel", "copy_entries", "read_directory",
                    "set_security_config", "watch_directory",
                    "unwatch_directory", "unwatch_all"} :
          lock_poisoned(cmd)

SpecShared == Init /\ [][NextShared]_vars

\* search_files_sync up to the parallel bridge: validate_path and the walk,
\* whose entries the bridge hands to the workers one after the other.
search_files_begin(search_path, query, max_results, ord) ==
    /\ CanIssue
    /\ LET Valid(v) ==
               IF v.err # "Ok"
               THEN /\ last' = Call([op |-> "search_files",
                                     paths |-> <<search_path>>,
                                     name |-> query, cfg |-> config,
                                     pre |-> fs, post |-> fs, res |-> v.err,
                                     max_results |-> max_results])
                    /\ job' = job
               ELSE /\ job' = [IdleJob EXCEPT
                                  !.phase = "searching",
                                  !.pre = fs,
                                  !.paths = <<search_path>>,
                                  !.queue = WalkOrder(fs, v.path, ord),
                                  !.query = query,
                                  !.max_results = max_results,
                                  !.workers = [w \in 1..MaxWorkers |->
                                                  [pc |-> "next",
                                                   entry |-> NoPath]]]
                    /\ last' = last
       IN  Valid(file_ops_validate_path(fs, search_path))
    /\ nops' = nops + 1
    /\ UNCHANGED <<fs, config, par>>

\* One step of worker w of the parallel bridge: it takes the next entry and runs
\* the closure of filter_map up to process_search_entry ("next"), adds to
\* found_count ("count"), stores should_stop ("store"), and passes its
\* result to take_any_while and collect ("yield").
search_worker_step(w) ==
    /\ job.phase = "searching"
    /\ w \in 1..Len(job.workers)
    /\ LET me == job.workers[w]
           Goto(pc) == [job.workers EXCEPT ![w].pc = pc]
       IN  CASE me.pc = "next" ->
                   /\ job.queue # <<>>
                   /\ job' = [job EXCEPT
                                 !.queue = Tail(@),
                                 !.workers =
                                     IF ~job.should_stop
                                        /\ name_contains(
                                               file_name(Head(job.queue)),
                                               job.query)
                                     THEN [@ EXCEPT ![w] =
                                               [pc |-> "count",
                                                entry |-> Head(job.queue)]]
                                     ELSE @]
             [] me.pc = "count" ->
                   /\ job' = [job EXCEPT
                                 !.found_count = @ + 1,
                                 !.workers =
                                     IF job.found_count + 1
                                            >= max_results_of(job.max_results)
                                     THEN Goto("store") ELSE Goto("yield")]
             [] me.pc = "store" ->
                   /\ job' = [job EXCEPT !.should_stop = TRUE,
                                         !.workers = Goto("yield")]
             [] me.pc = "yield" ->
                   /\ job' = [job EXCEPT
                                 !.results = IF job.should_stop THEN @
                                             ELSE Append(@, me.entry),
                                 !.workers = Goto("next")]
    /\ UNCHANGED <<fs, config, last, nops, par>>

\* A return that does not wait for the workers that are inside the closure.
search_files_return_killing ==
    /\ job.phase = "searching"
    /\ job.queue = <<>> \/ job.should_stop
    /\ LET Take(n) ==
               SubSeq(job.results, 1,
                      IF n < Len(job.results) THEN n ELSE Len(job.results))
       IN  last' = Call([op |-> "search_files", paths |-> job.paths,
                         name |-> job.query, cfg |-> config,
                         pre |-> job.pre, post |-> fs, res |-> "Ok",
                         max_results |-> job.max_results,
                         out |-> Take(max_results_of(job.max_results))])
    /\ job' = IdleJob
    /\ UNCHANGED <<fs, config, nops, par>>

\* The end of the bridge and the return: every worker is between two
\* entries and the walk is exhausted or take_any_while has stopped it; the
\* first max_results of the collected results are returned.
search_files_return ==
    /\ job.phase = "searching"
    /\ \A w \in 1..Len(job.workers) : job.workers[w].pc = "next"
    /\ job.queue = <<>> \/ job.should_stop
    /\ LET Take(n) ==
               SubSeq(job.results, 1,
                      IF n < Len(job.results) THEN n ELSE Len(job.results))
       IN  last' = Call([op |-> "search_files", paths |-> job.paths,
                         name |-> job.query, cfg |-> config,
                         pre |-> job.pre, post |-> fs, res |-> "Ok",
                         max_results |-> job.max_results,
                         out |-> Take(max_results_of(job.max_results))])
    /\ job' = IdleJob
    /\ UNCHANGED <<fs, config, nops, par>>

\* search_files with its workers, followed step by step, on the walks of
\* /root/d/s and of /out (through the link /root/k).
NextSearch ==
    \/ \E p \in {<<"/", "root", "d", "s">>, <<"/", "root", "k">>,
                  <<"/", "out", "nx">>},
          q \in QueryInputs,
          m \in {{}} \cup {{k} : k \in 0..MaxResults}, ord \in DirOrders :
          search_files_begin(p, q, m, ord)
    \/ \E w \in 1..MaxWorkers : search_worker_step(w)
    \/ search_files_return

SpecSearch == InitPar /\ [][NextSearch]_vars

\* search_files on the walk of /out, with the entries in one order.
NextSearchLive ==
    \/ \E q \in QueryInputs, m \in {{}} \cup {{k} : k \in 0..MaxResults} :
          search_files_begin(<<"/", "root", "k">>, q, m, AllNames)
    \/ \E w \in 1..MaxWorkers : search_worker_step(w)
    \/ search_files_return

\* The threads of the rayon pool are scheduled by the operating system: a
\* worker that can take a step takes one, and the blocking closure returns
\* once the bridge has ended.
InitSearchLive == InitPar /\ fs = MkFs(BaseTree)

SpecSearchLive ==
    /\ InitSearchLive
    /\ [][NextSearchLive]_vars
    /\ WF_vars(\E w \in 1..MaxWorkers : search_worker_step(w))
    /\ WF_vars(search_files_return)

\* create_directory, create_file and rename_entry on names of every kind.
NextWrite ==
    \/ \E p \in CreateInputs \cup
                  {<<"/", "root", "t", "a\\b">>, <<"/", "root", "t", "a\\0b">>,
                   <<"/", "root", "t", "CON">>} :
          create_directory(p) \/ create_file(p)
    \/ \E p \in RenameInputs,
          n \in NameInputs \cup {"", ".", "a/b", "a\\b", "a\\0b", "CON",
                                 "con", "Con. ", "com1.txt", "a:b", "n."} :
          rename_entry(p, n)

SpecWrite == Init /\ [][NextWrite]_vars

\* read_directory on a directory with names in both cases, a link to a
\* directory and a name that is not valid UTF-8; b is the entry whose
\* metadata may fail.
InitRead ==
    /\ fs = MkFs({ <<<<"/">>, Dir>>,
                   <<<<"/", "root">>, Dir>>,
                   <<<<"/", "root", "B">>, File(1)>>,
                   <<<<"/", "root", "C">>, Dir>>,
                   <<<<"/", "root", "a">>, File(1)>>,
                   <<<<"/", "root", "b">>, Dir>>,
                   <<<<"/", "root", "c">>, File(2)>>,
                   <<<<"/", "root", "d">>, Dir>>,
                   <<<<"/", "root", "d", "f">>, File(1)>>,
                   <<<<"/", "root", "k">>, Link(<<"/", "root", "d">>)>>,
                   <<<<"/", "root", "\\xff">>, File(1)>> })
    /\ config \in Policies
    /\ last = NoCall
    /\ nops = 0
    /\ par = IdlePar
    /\ job = IdleJob

NextRead ==
    \E p \in {<<"/", "root">>, <<"/", "root", "d">>, <<"/", "root", "k">>,
               <<"/", "root", "a">>, <<"/", "root", "nx">>},
       ord \in DirOrders
                 \cup {<<"c", "C", "b", "f", "B", "a", "\\xff", "k", "d">>},
       lost \in SUBSET {"b", "c", "k"} :
        read_directory(p, ord, lost)

SpecRead == InitRead /\ [][NextRead]_vars

\* delete_entries_sync with permanent set on one directory, up to the call
\* of remove_dir_safe and its read_dir.
delete_entries_begin(path, ord) ==
    /\ CanIssue
    /\ LET Returned(e) ==
               /\ last' = Call([op |-> "delete_entries", paths |-> <<path>>,
                                flag |-> TRUE, cfg |-> config, pre |-> fs,
                                post |-> fs, res |-> e])
               /\ job' = job
           Listed(rd, p) ==
               IF rd.err # "Ok" THEN Returned("Io")
               ELSE /\ job' = [IdleJob EXCEPT
                                  !.phase = "deleting",
                                  !.stack = <<[path |-> p,
                                               names |->
                                                   InOrder(rd.names, ord)]>>,
                                  !.depth = 1,
                                  !.pre = fs, !.paths = <<path>>]
                    /\ last' = last
           Begun(v) ==
               IF v.err # "Ok" THEN Returned(v.err)
               ELSE /\ symlink_metadata(fs, v.paths[1]).kind = "dir"
                    /\ Listed(read_dir(fs, v.paths[1]), v.paths[1])
       IN  Begun(validate_paths_sandboxed(fs, <<path>>, config))
    /\ nops' = nops + 1
    /\ UNCHANGED <<fs, config, par>>

\* One step of remove_dir_safe; the error or the return of the outermost
\* activation ends delete_permanent and with it the command.
remove_dir_safe_step(ord) ==
    /\ job.phase = "deleting"
    /\ LET Stepped(s) ==
               /\ fs' = s.f
               /\ IF s.err # "Ok" \/ s.stack = <<>>
                  THEN /\ last' = Call([op |-> "delete_entries",
                                        paths |-> job.paths, flag |-> TRUE,
                                        cfg |-> config, pre |-> job.pre,
                                        post |-> s.f, res |-> s.err,
                                        depth |-> job.depth])
                       /\ job' = IdleJob
                  ELSE /\ job' = [job EXCEPT
                                     !.stack = s.stack,
                                     !.depth = IF Len(s.stack) > @
                                               THEN Len(s.stack) ELSE @]
                       /\ last' = last
       IN  Stepped(RemoveDirStep(fs, job.stack, ord))
    /\ UNCHANGED <<config, nops, par>>

\* The permanent delete of a directory, followed step by step, on the deep
\* trees and on the trees with links.
InitDelete ==
    /\ fs \in DeepTrees \cup InitialTrees
    /\ config = Policy(<<<<"/", "root">>>>, <<>>)
    /\ last = NoCall
    /\ nops = 0
    /\ par = IdlePar
    /\ job = IdleJob

NextDelete ==
    \/ \E p \in {<<"/", "root", "d">>, <<"/", "out">>}, ord \in DirOrders :
          delete_entries_begin(p, ord)
    \/ \E ord \in DirOrders : remove_dir_safe_step(ord)

SpecDelete == InitDelete /\ [][NextDelete]_vars

(***************************************************************************)
(* read_directory_stream (fs/read.rs), followed entry by entry.  job.queue *)
(* holds the entries read_dir has not yielded yet, job.stack the batch     *)
(* being filled, job.results the events emitted, job.dst the directory     *)
(* that was opened and job.reads the names whose metadata cannot be read.  *)
(***************************************************************************)
STREAM_BATCH_SIZE == 100

\* The largest number of children of the directory that is streamed.
MaxChildren == 201

\* get_config, validate_sandboxed and fs::read_dir of read_directory_stream:
\* either of the two errors returns before anything is emitted.
read_directory_stream_begin(path, ord, lost) ==
    /\ CanIssue
    /\ LET Failed(e) ==
               /\ last' = Call([op |-> "read_directory_stream",
                                paths |-> <<path>>, cfg |-> config,
                                pre |-> fs, post |-> fs, res |-> e,
                                out |-> <<>>, reads |-> lost])
               /\ job' = job
           Opened(rd, dir_path) ==
               IF rd.err # "Ok" THEN Failed("ReadDirectoryFailed")
               ELSE /\ job' = [IdleJob EXCEPT
                                  !.phase = "stream",
                                  !.queue = InOrder(rd.names, ord),
                                  !.reads = lost, !.pre = fs,
                                  !.paths = <<path>>, !.dst = dir_path]
                    /\ last' = last
           Valid(v) ==
               IF v.err # "Ok" THEN Failed(v.err)
               ELSE Opened(read_dir(fs, v.path), Resolve(fs, v.path, TRUE))
       IN  Valid(validate_sandboxed(fs, path, config))
    /\ nops' = nops + 1
    /\ UNCHANGED <<fs, config, par>>

\* One turn of the for loop of read_directory_stream, or, when read_dir is
\* exhausted, the emission of the rest of the batch and of
\* directory-complete, and the return.
read_directory_stream_step ==
    /\ job.phase = "stream"
    /\ LET Batch(b) == [name |-> "directory-batch", payload |-> b]
           Pushed(batch, entry) ==
               IF entry # <<>> /\ Len(batch) >= STREAM_BATCH_SIZE
               THEN /\ job' = [job EXCEPT
                                  !.queue = Tail(@), !.stack = <<>>,
                                  !.results = Append(@, Batch(batch))]
                    /\ last' = last
               ELSE /\ job' = [job EXCEPT !.queue = Tail(@),
                                          !.stack = batch]
                    /\ last' = last
           Entry(e) == Pushed(job.stack \o e, e)
           Rest == IF job.stack # <<>> THEN <<Batch(job.stack)>> ELSE <<>>
           Complete ==
               <<[name |-> "directory-complete", payload |-> job.paths[1]]>>
       IN  IF job.queue # <<>>
           THEN Entry(from_dir_entry(job.pre, job.dst, Head(job.queue),
                                     job.reads))
           ELSE /\ last' = Call([op |-> "read_directory_stream",
                                 paths |-> job.paths, cfg |-> config,
                                 pre |-> job.pre, post |-> fs,
                                 res |-> "Ok", reads |-> job.reads,
                                 out |-> job.results \o Rest \o Complete])
                /\ job' = IdleJob
    /\ UNCHANGED <<fs, config, nops, par>>

\* /root/big holds the files "1" .. "n" and, when odd is set, a file whose
\* name is not valid UTF-8.
InitStream ==
    /\ \E n \in {0, 1, STREAM_BATCH_SIZE, STREAM_BATCH_SIZE + 1,
                 2 * STREAM_BATCH_SIZE, MaxChildren},
          odd \in BOOLEAN :
           fs = MkFs({ <<<<"/">>, Dir>>, <<<<"/", "root">>, Dir>>,
                       <<<<"/", "out">>, Dir>>,
                       <<<<"/", "root", "big">>, Dir>> }
                     \cup {<<<<"/", "root", "big", ToString(i)>>, File(1)>> :
                              i \in 1..n}
                     \cup (IF odd
                           THEN {<<<<"/", "root", "big", "\\xff">>, File(1)>>}
                           ELSE {}))
    /\ config = Policy(<<<<"/", "root">>>>, <<>>)
    /\ last = NoCall
    /\ nops = 0
    /\ par = IdlePar
    /\ job = IdleJob

NextStream ==
    \/ \E p \in {<<"/", "root", "big">>, <<"/", "root", "big", "1">>,
                  <<"/", "root", "nx">>, <<"/", "out">>},
          back \in BOOLEAN, lost \in {{}, {"1"}, {"1", "2"}} :
           LET Forward == <<"\\xff">> \o [i \in 1..MaxChildren |-> ToString(i)]
           IN  read_directory_stream_begin(
                   p, IF back THEN Reverse(Forward) ELSE Forward, lost)
    \/ read_directory_stream_step

SpecStream == InitStream /\ [][NextStream]_vars

(***************************************************************************)
(* search_files_stream (search.rs, search_files_with_progress), followed   *)
(* step by step like search_files.                                         *)
(***************************************************************************)
SEARCH_PROGRESS_INTERVAL == 100

\* search_files_with_progress up to the parallel bridge: validate_path,
\* the initial search-progress and the walk.
search_files_stream_begin(search_path, query, max_results, ord) ==
    /\ CanIssue
    /\ LET Valid(v) ==
               IF v.err # "Ok"
               THEN /\ last' = Call([op |-> "search_files_stream",
                                     paths |-> <<search_path>>,
                                     name |-> query, cfg |-> config,
                                     pre |-> fs, post |-> fs, res |-> v.err,
                                     max_results |-> max_results])
                    /\ job' = job
               ELSE /\ job' = [IdleJob EXCEPT
                                  !.phase = "streaming",
                                  !.pre = fs,
                                  !.paths = <<search_path>>,
                                  !.queue = WalkOrder(fs, v.path, ord),
                                  !.query = query,
                                  !.max_results = max_results,
                                  !.events = <<[name |-> "search-progress",
                                                scanned |-> 0, found |-> 0]>>,
                                  !.workers = [w \in 1..MaxWorkers |->
                                                  [pc |-> "next",
                                                   entry |-> NoPath,
                                                   scanned |-> 0]]]
                    /\ last' = last
       IN  Valid(file_ops_validate_path(fs, search_path))
    /\ nops' = nops + 1
    /\ UNCHANGED <<fs, config, par>>

\* One step of worker w in search_files_with_progress: it takes the next
\* entry, loads should_stop and adds to scanned ("next"), emits the
\* search-progress that is due ("progress"), adds to found ("count"),
\* stores should_stop ("store"), and passes its result to take_any_while
\* and collect ("yield").  process_search_entry is part of the step before
\* "count".
search_stream_worker_step(w) ==
    /\ job.phase = "streaming"
    /\ w \in 1..Len(job.workers)
    /\ LET me == job.workers[w]
           Goto(pc) == [job.workers EXCEPT ![w].pc = pc]
           Between == [pc |-> "next", entry |-> NoPath, scanned |-> 0]
           Processed(entry) ==
               IF name_contains(file_name(entry), job.query)
               THEN [pc |-> "count", entry |-> entry, scanned |-> 0]
               ELSE Between
       IN  CASE me.pc = "next" ->
                   /\ job.queue # <<>>
                   /\ job' =
                        IF job.should_stop THEN [job EXCEPT !.queue = Tail(@)]
                        ELSE [job EXCEPT
                                 !.queue = Tail(@),
                                 !.scanned = @ + 1,
                                 !.workers[w] =
                                     IF (job.scanned + 1)
                                            % SEARCH_PROGRESS_INTERVAL = 0
                                     THEN [pc |-> "progress",
                                           entry |-> Head(job.queue),
                                           scanned |-> job.scanned + 1]
                                     ELSE Processed(Head(job.queue))]
             [] me.pc = "progress" ->
                   /\ job' = [job EXCEPT
                                 !.events =
                                     Append(@, [name |-> "search-progress",
                                                scanned |-> me.scanned,
                                                found |-> job.found_count]),
                                 !.workers[w] = Processed(me.entry)]
             [] me.pc = "count" ->
                   /\ job' = [job EXCEPT
                                 !.found_count = @ + 1,
                                 !.workers =
                                     IF job.found_count + 1
                                            >= max_results_of(job.max_results)
                                     THEN Goto("store") ELSE Goto("yield")]
             [] me.pc = "store" ->
                   /\ job' = [job EXCEPT !.should_stop = TRUE,
                                         !.workers = Goto("yield")]
             [] me.pc = "yield" ->
                   /\ job' = [job EXCEPT
                                 !.results = IF job.should_stop THEN @
                                             ELSE Append(@, me.entry),
                                 !.workers[w] = Between]
    /\ UNCHANGED <<fs, config, last, nops, par>>

\* A return that emits search-complete only when the walk was exhausted.
search_files_stream_return_silent ==
    /\ job.phase = "streaming"
    /\ \A w \in 1..Len(job.workers) : job.workers[w].pc = "next"
    /\ job.queue = <<>> \/ job.should_stop
    /\ LET Take(n) ==
               SubSeq(job.results, 1,
                      IF n < Len(job.results) THEN n ELSE Len(job.results))
           Final ==
               IF job.should_stop THEN <<>>
               ELSE <<[name |-> "search-progress", scanned |-> job.scanned,
                       found |-> Len(job.results)],
                      [name |-> "search-complete",
                       count |-> Len(job.results)]>>
       IN  last' = Call([op |-> "search_files_stream", paths |-> job.paths,
                         name |-> job.query, cfg |-> config,
                         pre |-> job.pre, post |-> fs, res |-> "Ok",
                         max_results |-> job.max_results,
                         out |-> Take(max_results_of(job.max_results)),
                         events |-> job.events \o Final])
    /\ job' = IdleJob
    /\ UNCHANGED <<fs, config, nops, par>>

\* The end of the bridge, the final search-progress, search-complete and
\* the return of the first max_results of the collected results.
search_files_stream_return ==
    /\ job.phase = "streaming"
    /\ \A w \in 1..Len(job.workers) : job.workers[w].pc = "next"
    /\ job.queue = <<>> \/ job.should_stop
    /\ LET Take(n) ==
               SubSeq(job.results, 1,
                      IF n < Len(job.results) THEN n ELSE Len(job.results))
           Final ==
               <<[name |-> "search-progress", scanned |-> job.scanned,
                  found |-> Len(job.results)],
                 [name |-> "search-complete", count |-> Len(job.results)]>>
       IN  last' = Call([op |-> "search_files_stream", paths |-> job.paths,
                         name |-> job.query, cfg |-> config,
                         pre |-> job.pre, post |-> fs, res |-> "Ok",
                         max_results |-> job.max_results,
                         out |-> Take(max_results_of(job.max_results)),
                         events |-> job.events \o Final])
    /\ job' = IdleJob
    /\ UNCHANGED <<fs, config, nops, par>>

\* search_files_stream on the directory of MaxChildren files: every entry
\* matches the empty query, one entry matches "100", none "zz".
NextSearchStream ==
    \/ \E p \in {<<"/", "root", "big">>, <<"/", "root", "nx">>},
          o \in {<<"", {MaxResults}>>, <<"100", {}>>, <<"100", {1}>>,
                  <<"zz", {}>>} :
           search_files_stream_begin(
               p, o[1], o[2],
               <<"\\xff">> \o [i \in 1..MaxChildren |-> ToString(i)])
    \/ \E w \in 1..MaxWorkers : search_stream_worker_step(w)
    \/ search_files_stream_return

\* The directory of MaxChildren files, all with names in UTF-8.
InitSearchStream ==
    /\ InitStream
    /\ <<"/", "root", "big", ToString(MaxChildren)>> \in DOMAIN fs
    /\ <<"/", "root", "big", "\\xff">> \notin DOMAIN fs

SpecSearchStream == InitSearchStream /\ [][NextSearchStream]_vars

\* The copy of /root/d followed step by step on the deep trees and on the
\* trees with links; on the latter also into /root/d itself and into its
\* subdirectory /root/d/s.
NextCopyLive ==
    \/ \E d \in {<<"/", "root", "t">>, <<"/", "root", "d">>,
                  <<"/", "root", "d", "s">>} :
          /\ d # <<"/", "root", "t">> => <<"/", "root", "x">> \in DOMAIN fs
          /\ copy_entries_begin(<<"/", "root", "d">>, d)
    \/ \E ord \in DirOrders : copy_dir_iterative_step(ord)

\* copy_dir_iterative runs in a blocking closure of its own: its loop goes
\* on as long as it can.  This is weak fairness of the loop iteration,
\* WF_vars(\E ord \in DirOrders : copy_dir_iterative_step(ord)), written
\* out by the definition of WF: the iteration has no guard but
\* job.phase = "copying" and always changes the queue, so that
\* job.phase = "copying" is ENABLED <<iteration>>_vars.
SpecCopyLive ==
    /\ InitDelete
    /\ [][NextCopyLive]_vars
    /\ \/ []<>(job.phase # "copying")
       \/ []<><<\E ord \in DirOrders : copy_dir_iterative_step(ord)>>_vars

\* move_entries on batches of one or two sources, also into a destination
\* that holds a dangling link under the name of a source: /root/t/f points
\* to /root/nx, which does not exist.
DanglingTree ==
    { <<<<"/", "root", "t", "f">>, Link(<<"/", "root", "nx">>)>> }

MoveSources ==
    { <<"/", "root", "d">>, <<"/", "root", "d", "f">>,
      <<"/", "root", "d", "s">>, <<"/", "root", "x", "f">>,
      <<"/", "root", "t", "f">>, <<"/", "root", "j">> }

InitMove ==
    /\ fs \in InitialTrees \cup {MkFs(BaseTree \cup DanglingTree)}
    /\ config = Policy(<<<<"/", "root">>>>, <<>>)
    /\ last = NoCall
    /\ nops = 0
    /\ par = IdlePar
    /\ job = IdleJob

NextMove ==
    \E a \in MoveSources, b \in MoveSources, d \in MoveDestInputs,
       ord \in DirOrders :
        move_entries(IF a = b THEN <<a>> ELSE <<a, b>>, d, ord)

SpecMove == InitMove /\ [][NextMove]_vars

(***************************************************************************)
(* commands/watcher.rs                                                     *)
(*                                                                         *)
(* A path string is the sequence of its pieces: a separator "/" or "\\", a *)
(* blank " ", or the letters of a name, so that "/root/d/" is              *)
(* <<"/", "root", "/", "d", "/">>.  The cfg(windows) blocks are not in the *)
(* build that is modelled.                                                 *)
(***************************************************************************)
MaxCalls == 2

MaxWatchOps == 3

RECURSIVE Flat(_)
\* The String the pieces spell.
Flat(s) == IF s = <<>> THEN "" ELSE Head(s) \o Flat(Tail(s))

RECURSIVE trim_start(_)
trim_start(s) ==
    IF s # <<>> /\ Head(s) = " " THEN trim_start(Tail(s)) ELSE s

RECURSIVE trim(_)
\* str::trim.
trim(s) ==
    IF s # <<>> /\ s[Len(s)] = " " THEN trim(SubSeq(s, 1, Len(s) - 1))
    ELSE trim_start(s)

RECURSIVE split_nonempty(_, _)
\* s.split('/').filter(|p| !p.is_empty()): the nonempty parts of s, with
\* cur the part that is being read.
split_nonempty(s, cur) ==
    LET Part == IF cur = <<>> THEN <<>> ELSE <<cur>>
    IN  IF s = <<>> THEN Part
        ELSE IF Head(s) = "/" THEN Part \o split_nonempty(Tail(s), <<>>)
        ELSE split_nonempty(Tail(s), Append(cur, Head(s)))

RECURSIVE join_slash(_)
\* .collect::<Vec<_>>().join("/").
join_slash(parts) ==
    IF parts = <<>> THEN <<>>
    ELSE IF Len(parts) = 1 THEN parts[1]
    ELSE parts[1] \o <<"/">> \o join_slash(Tail(parts))

RECURSIVE trim_trailing_slash(_)
\* while s.ends_with('/') { if s == "/" { break; } s.pop(); }
trim_trailing_slash(s) ==
    IF s # <<>> /\ s[Len(s)] = "/" /\ s # <<"/">>
    THEN trim_trailing_slash(SubSeq(s, 1, Len(s) - 1))
    ELSE s

normalize_watch_key(raw) ==
    LET Collapsed(trimmed, s) ==
            IF Len(s) >= 2 /\ s[1] = "/" /\ s[2] = "/"
            THEN <<"/", "/">>
                     \o join_slash(split_nonempty(SubSeq(s, 3, Len(s)), <<>>))
            ELSE IF trimmed # <<>> /\ trimmed[1] = "/"
            THEN <<"/">> \o join_slash(split_nonempty(s, <<>>))
            ELSE join_slash(split_nonempty(s, <<>>))
        Replaced(trimmed) ==
            Collapsed(trimmed,
                      [i \in 1..Len(trimmed) |->
                          IF trimmed[i] = "\\" THEN "/" ELSE trimmed[i]])
    IN  Flat(trim_trailing_slash(Replaced(trim(raw))))

\* Path::new(&watch_path): the components of the string as it was given.
PathOf(raw) ==
    LET Named(parts) == [i \in 1..Len(parts) |-> Flat(parts[i])]
    IN  (IF raw # <<>> /\ raw[1] = "/" THEN <<"/">> ELSE <<>>)
            \o Named(split_nonempty(raw, <<>>))

NoWatch == [pc |-> "idle", raw |-> <<>>, key |-> "", seen |-> {}, w |-> 0]

\* The checks of watch_directory before the table is looked at.
WatchChecked(f, raw) ==
    IF trim(raw) = <<>> THEN "EmptyPath"
    ELSE IF ~(raw # <<>> /\ raw[1] = "/") THEN "NotAbsolutePath"
    ELSE IF ~exists(f, PathOf(raw)) THEN "DirectoryNotFound"
    ELSE IF ~is_dir(f, PathOf(raw)) THEN "NotADirectory"
    ELSE "Ok"

\* The record of a returned watcher command: name is the key, flag tells
\* whether the call created a watcher, pre is the table the call saw when
\* it looked the key up and post the table when it returned.
WatchCall(cmd, raw, key, created, seen, table, res) ==
    Call([op |-> cmd, paths |-> <<raw>>, name |-> key, flag |-> created,
          cfg |-> config, pre |-> seen, post |-> table, res |-> res])

\* watch_directory up to the lock: call c starts with the string raw.
watch_directory_begin(c, raw) ==
    /\ nops < MaxWatchOps
    /\ job.calls[c].pc = "idle"
    /\ IF WatchChecked(fs, raw) # "Ok"
       THEN /\ last' = WatchCall("watch_directory", raw,
                                 normalize_watch_key(raw), FALSE,
                                 job.watchers, job.watchers,
                                 WatchChecked(fs, raw))
            /\ job' = job
       ELSE /\ job' = [job EXCEPT
                          !.calls[c] = [NoWatch EXCEPT
                                           !.pc = "check", !.raw = raw,
                                           !.key = normalize_watch_key(raw)]]
            /\ last' = last
    /\ nops' = nops + 1
    /\ UNCHANGED <<fs, config, par>>

\* One step of call c: the lookup under the lock (and the return when the
\* key is there), the creation of the watcher with the lock released (ok
\* tells whether recommended_watcher and watch succeed), the insert under
\* the lock, which drops the watcher the key held, and the return.
watch_directory_step(c, ok) ==
    /\ c \in 1..Len(job.calls)
    /\ LET me == job.calls[c]
       IN  CASE me.pc = "check" ->
                   /\ ok
                   /\ IF \E p \in job.watchers : p[1] = me.key
                      THEN /\ last' = WatchCall("watch_directory", me.raw,
                                                me.key, FALSE, job.watchers,
                                                job.watchers, "Ok")
                           /\ job' = [job EXCEPT !.calls[c] = NoWatch]
                      ELSE /\ job' = [job EXCEPT
                                         !.calls[c].pc = "create",
                                         !.calls[c].seen = job.watchers]
                           /\ last' = last
             [] me.pc = "create" ->
                   IF ok
                   THEN /\ job' = [job EXCEPT
                                      !.made = @ + 1,
                                      !.live = @ \cup {<<me.key, job.made + 1>>},
                                      !.calls[c].pc = "insert",
                                      !.calls[c].w = job.made + 1]
                        /\ last' = last
                   ELSE /\ last' = WatchCall("watch_directory", me.raw,
                                             me.key, FALSE, me.seen,
                                             job.watchers, "Notify")
                        /\ job' = [job EXCEPT !.calls[c] = NoWatch]
             [] me.pc = "insert" ->
                   /\ ok
                   /\ LET Old == {p \in job.watchers : p[1] = me.key}
                          Table == (job.watchers \ Old)
                                       \cup {<<me.key, me.w>>}
                      IN  /\ job' = [job EXCEPT
                                        !.watchers = Table,
                                        !.live = @ \ Old,
                                        !.calls[c] = NoWatch]
                          /\ last' = WatchCall("watch_directory", me.raw,
                                               me.key, TRUE, me.seen, Table,
                                               "Ok")
             [] me.pc = "idle" -> FALSE
    /\ UNCHANGED <<fs, config, nops, par>>

\* unwatch_directory: under the lock the entry of the key is removed and
\* its watcher dropped.
unwatch_directory(raw) ==
    /\ nops < MaxWatchOps
    /\ LET Old == {p \in job.watchers : p[1] = normalize_watch_key(raw)}
       IN  /\ job' = [job EXCEPT !.watchers = @ \ Old, !.live = @ \ Old]
           /\ last' = WatchCall("unwatch_directory", raw,
                                normalize_watch_key(raw), FALSE,
                                job.watchers, job.watchers \ Old, "Ok")
    /\ nops' = nops + 1
    /\ UNCHANGED <<fs, config, par>>

\* unwatch_all: the table is cleared and every watcher in it dropped.
unwatch_all ==
    /\ nops < MaxWatchOps
    /\ job' = [job EXCEPT !.watchers = {}, !.live = @ \ job.watchers]
    /\ last' = WatchCall("unwatch_all", <<>>, "", FALSE, job.watchers, {},
                         "Ok")
    /\ nops' = nops + 1
    /\ UNCHANGED <<fs, config, par>>

\* "/root/d" and other spellings of it, "/root/t", a file, a missing
\* directory, a relative path and a blank string.
WatchInputs ==
    { <<"/", "root", "/", "d">>, <<"/", "root", "/", "d", "/">>,
      <<"/", "root", "/", "/", "d">>, <<"/", "/", "root", "/", "d">>,
      <<"/", "root", "/", "t">>, <<"/", "root", "/", "d", "/", "f">>,
      <<"/", "root", "/", "nx">>, <<"root", "/", "d">>, <<" ">> }

InitWatch ==
    /\ fs = MkFs(BaseTree)
    /\ config = Policy(<<<<"/", "root">>>>, <<>>)
    /\ last = NoCall
    /\ nops = 0
    /\ par = IdlePar
    /\ job = [IdleJob EXCEPT !.calls = [c \in 1..MaxCalls |-> NoWatch]]

NextWatch ==
    \/ \E c \in 1..MaxCalls, raw \in WatchInputs :
          watch_directory_begin(c, raw)
    \/ \E c \in 1..MaxCalls, ok \in BOOLEAN : watch_directory_step(c, ok)
    \/ \E raw \in WatchInputs : unwatch_directory(raw)
    \/ unwatch_all

SpecWatch == InitWatch /\ [][NextWatch]_vars

(***************************************************************************)
(* Properties.  A property speaks about the command that returned last:    *)
(* last.pre is the filesystem when it was called, last.post the filesystem *)
(* when it returned, last.cfg the policy it ran under.                     *)
(***************************************************************************)
\* The path q lies inside some allowed root of cfg.
InRoot(q, cfg) ==
    \E r \in 1..Len(cfg.allowed_roots) : starts_with(q, cfg.allowed_roots[r])

\* The path q matches some denied pattern of cfg.
Denied(q, cfg) ==
    \E k \in 1..Len(cfg.denied_patterns) :
        /\ PatternNew(cfg.denied_patterns[k])
        /\ PatternMatches(cfg.denied_patterns[k], q)

\* Some directory component of p (not the last one) is a symlink.
ThroughLink(f, p) ==
    \E k \in 2..(Len(p) - 1) :
        symlink_metadata(f, SubSeq(p, 1, k)).kind = "link"

\* The physical paths whose node differs between f and g.
Changed(f, g) ==
    {q \in (DOMAIN f) \cup (DOMAIN g) :
        q \notin DOMAIN f \/ q \notin DOMAIN g \/ f[q] # g[q]}

SandboxValidators == {"validate_sandboxed", "validate_sandboxed_no_follow"}

CopyCommands == {"copy_entries", "copy_entries_parallel"}

BatchCommands == CopyCommands \cup {"move_entries", "delete_entries"}

ReadCommands == {"read_directory", "get_directory_stats", "get_file_content"}

\* The paths the call c has to validate, each with the mode of its
\* validation: TRUE when the last component is followed, FALSE when the
\* path names the entry itself.
Subjects(c) ==
    IF c.op = "validate_sandboxed" \/ c.op \in ReadCommands
    THEN {<<c.paths[1], TRUE>>}
    ELSE IF c.op = "validate_sandboxed_no_follow"
    THEN {<<c.paths[1], FALSE>>}
    ELSE IF c.op \in BatchCommands
    THEN {<<c.paths[i], FALSE>> : i \in 1..Len(c.paths)}
         \cup (IF c.op = "delete_entries" THEN {} ELSE {<<c.dst, TRUE>>})
    ELSE {}

\* The call c rejected its input: a validation function with AccessDenied,
\* a command with some error.
Rejected(c) ==
    IF c.op \in SandboxValidators THEN c.res = "AccessDenied"
    ELSE c.res # "Ok"

\* C1: every existing path that lies outside every allowed root is
\* rejected with AccessDenied by validate_sandboxed and
\* validate_sandboxed_no_follow, and copy, move, delete, list, stats and
\* read_text on it never succeed.  (Violated: see C4.)
C1_OutsideRootDenied ==
    \A s \in Subjects(last) :
        LET At(q) ==
                (q # NoPath /\ ~InRoot(q, last.cfg)) => Rejected(last)
        IN  ~has_traversal_components(s[1])
                => At(Resolve(last.pre, s[1], s[2]))

\* C2: a path that matches a denied pattern is rejected with AccessDenied by
\* both validation functions, also inside an allowed root, and a path is
\* accepted only if it lies inside an allowed root and matches no denied
\* pattern.  (Violated: see C4.)
C2_DeniedPatternRejected ==
    last.op \in SandboxValidators =>
        \A s \in Subjects(last) :
            LET At(q) ==
                    /\ (q # NoPath /\ Denied(q, last.cfg))
                           => last.res = "AccessDenied"
                    /\ last.res = "Ok"
                           => (/\ q # NoPath
                               /\ InRoot(q, last.cfg)
                               /\ ~Denied(q, last.cfg))
            IN  ~has_traversal_components(s[1])
                    => At(Resolve(last.pre, s[1], s[2]))

\* C3: validate_path and validate_path_no_follow (and the sandboxed
\* functions built on them) reject a relative path with PathNotAbsolute and
\* an absolute path with a ".." component with InvalidPath, each time
\* before any filesystem call is made.
C3_TraversalBeforeFilesystem ==
    last.op \in ValidationFns =>
        LET Of(p) ==
                /\ ~is_absolute(p)
                       => (last.res = "PathNotAbsolute" /\ last.fsCalls = 0)
                /\ (is_absolute(p) /\ has_traversal_components(p))
                       => (last.res = "InvalidPath" /\ last.fsCalls = 0)
        IN  Of(last.paths[1])

\* validate_path has rejected a path with ".." that does not exist, without
\* a filesystem call.
C3_Witness ==
    /\ last.op = "validate_path"
    /\ last.paths = <<<<"/", "root", "nx", "..", "d">>>>
    /\ canonicalize(last.pre, <<"/", "root", "nx">>) = NoPath
    /\ last.res = "InvalidPath"
    /\ last.fsCalls = 0

\* C4: the sandbox check is made on the place a path leads to also in the
\* no-follow mode: a path that is textually inside an allowed root and
\* reaches a place outside every allowed root through a symlinked directory
\* is rejected by validate_sandboxed_no_follow and as a source of copy, move
\* and delete.
C4_NoFollowChecksCanonical ==
    \A s \in Subjects(last) :
        LET At(q) ==
                (/\ q # NoPath
                 /\ ThroughLink(last.pre, s[1])
                 /\ InRoot(s[1], last.cfg)
                 /\ ~InRoot(q, last.cfg)) => Rejected(last)
        IN  (~s[2] /\ ~has_traversal_components(s[1]))
                => At(Resolve(last.pre, s[1], FALSE))

\* C5: create_directory, create_file and rename_entry change only paths
\* that are inside an allowed root and match no denied pattern; when the
\* parent directory is outside every allowed root they fail with
\* AccessDenied and change nothing.
C5_CreateRenameSandboxed ==
    last.op \in {"create_directory", "create_file", "rename_entry"} =>
        LET In(up) ==
                /\ \A q \in Changed(last.pre, last.post) :
                       InRoot(q, last.cfg) /\ ~Denied(q, last.cfg)
                /\ (up # NoPath /\ ~InRoot(up, last.cfg))
                       => (/\ last.res = "AccessDenied"
                           /\ last.post = last.pre)
        IN  In(IF has_traversal_components(last.paths[1]) THEN NoPath
               ELSE Resolve(last.pre, parent(last.paths[1]), TRUE))

\* C6: a search whose root is outside every allowed root or matches a
\* denied pattern fails with AccessDenied and visits no entry.
C6_SearchRootSandboxed ==
    last.op = "search_files" =>
        LET At(q) ==
                (q # NoPath /\ (~InRoot(q, last.cfg) \/ Denied(q, last.cfg)))
                    => (last.res = "AccessDenied" /\ last.visited = {})
        IN  At(Resolve(last.pre, last.paths[1], TRUE))

\* The error of the first path of a batch that fails validation, the
\* sources in order before the destination, "Ok" when none fails.
FirstValidationError(f, sources, destination, hasDest, cfg) ==
    LET First(errs) ==
            IF \A i \in 1..Len(errs) : errs[i] = "Ok" THEN "Ok"
            ELSE errs[CHOOSE i \in 1..Len(errs) :
                          /\ errs[i] # "Ok"
                          /\ \A j \in 1..(i - 1) : errs[j] = "Ok"]
    IN  First([i \in 1..Len(sources) |->
                   validate_sandboxed_no_follow(f, sources[i], cfg).err]
              \o (IF hasDest
                  THEN <<validate_sandboxed(f, destination, cfg).err>>
                  ELSE <<>>))

\* C7: when a source or the destination of copy_entries,
\* copy_entries_parallel, move_entries or delete_entries fails validation,
\* the command returns the error of the first one that fails and the
\* filesystem is as it was; no task of copy_entries_parallel exists unless
\* every path of its batch passed.
C7_ValidationBeforeMutation ==
    /\ last.op \in BatchCommands =>
           LET Of(e) == e # "Ok" => (last.res = e /\ last.post = last.pre)
           IN  Of(FirstValidationError(last.pre, last.paths, last.dst,
                                       last.op # "delete_entries", last.cfg))
    /\ (par.phase = "running" \/ par.tasks # <<>>) =>
           FirstValidationError(par.pre, par.paths, par.dst, TRUE, par.cfg)
               = "Ok"

\* copy_entries with a valid first source and a second one outside the
\* sandbox: AccessDenied, and the first source has not been copied.
C7_Witness ==
    /\ last.op = "copy_entries"
    /\ last.paths = <<<<"/", "root", "d", "f">>, <<"/", "out", "f">>>>
    /\ last.dst = <<"/", "root", "t">>
    /\ validate_sandboxed_no_follow(last.pre, last.paths[1], last.cfg).err
           = "Ok"
    /\ last.res = "AccessDenied"
    /\ last.post = last.pre

\* C8: delete_entries([L], permanent) on a symlink L to a file F leaves F
\* and its content as they were; when L passes validation the command
\* succeeds and L is gone, otherwise nothing has changed.
C8_DeleteLinkKeepsTarget ==
    (last.op = "delete_entries" /\ last.flag /\ Len(last.paths) = 1) =>
        LET Of(L, F, v) ==
                (/\ L # NoPath
                 /\ last.pre[L].kind = "link"
                 /\ F # NoPath
                 /\ last.pre[F].kind = "file") =>
                    /\ F \in DOMAIN last.post
                    /\ last.post[F] = last.pre[F]
                    /\ v.err = "Ok"
                           => (/\ last.res = "Ok"
                               /\ Changed(last.pre, last.post) = {L})
                    /\ v.err # "Ok" => last.post = last.pre
        IN  Of(Resolve(last.pre, last.paths[1], FALSE),
               Resolve(last.pre, last.paths[1], TRUE),
               validate_sandboxed_no_follow(last.pre, last.paths[1],
                                            last.cfg))

\* The symlink /root/l to the file /out/f has been deleted permanently: the
\* link is gone, the file is there with its content.
C8_Witness ==
    /\ last.op = "delete_entries"
    /\ last.flag
    /\ last.paths = <<<<"/", "root", "l">>>>
    /\ last.pre[<<"/", "root", "l">>] = Link(<<"/", "out", "f">>)
    /\ last.res = "Ok"
    /\ <<"/", "root", "l">> \notin DOMAIN last.post
    /\ last.post[<<"/", "out", "f">>] = File(4)

\* The file at the physical path q lies in the tree of one of the sources.
FromSource(f, sources, q) ==
    \E i \in 1..Len(sources) :
        LET Below(S) == S # NoPath /\ starts_with(q, S)
        IN  Below(Resolve(f, sources[i], FALSE))

\* The places below the directory D where copies of the symlinks in the
\* tree of the source src would go.
LinkPlaces(f, src, D) ==
    LET Of(S) ==
            IF S = NoPath \/ file_name(src) = "" THEN {}
            ELSE {join(D, file_name(src)) \o SubSeq(L, Len(S) + 1, Len(L)) :
                     L \in {q \in Subtree(f, S) : f[q].kind = "link"}}
    IN  Of(Resolve(f, src, FALSE))

\* C9: after copy_entries and copy_entries_parallel nothing has been
\* created or changed at the place that corresponds to a symlink of a
\* source tree (the source itself or an entry at any depth), and every file
\* read lies physically in the tree of a source: none was reached through
\* a link.
C9_CopySkipsLinks ==
    /\ last.op \in CopyCommands =>
           LET Of(D) ==
                   /\ \A q \in last.reads :
                          FromSource(last.pre, last.paths, q)
                   /\ D # NoPath =>
                          \A i \in 1..Len(last.paths) :
                              LinkPlaces(last.pre, last.paths[i], D)
                                  \cap Changed(last.pre, last.post) = {}
           IN  Of(Resolve(last.pre, last.dst, TRUE))
    /\ \A q \in par.reads : FromSource(par.pre, par.paths, q)

\* /root/d, which holds the links l and s/l that point outside it, has been
\* copied to /root/t: the files are there, the links have no counterpart,
\* and /out/f, the target of s/l, has not been read.
C9_Witness ==
    /\ last.op = "copy_entries"
    /\ last.paths = <<<<"/", "root", "d">>>>
    /\ last.dst = <<"/", "root", "t">>
    /\ last.pre[<<"/", "root", "d", "s", "l">>].kind = "link"
    /\ last.res = "Ok"
    /\ last.post[<<"/", "root", "t", "d", "s", "g">>] = File(11)
    /\ <<"/", "root", "t", "d", "l">> \notin DOMAIN last.post
    /\ <<"/", "root", "t", "d", "s", "l">> \notin DOMAIN last.post
    /\ <<"/", "out", "f">> \notin last.reads

\* The depth of the deepest directory of the tree rooted at the physical
\* directory S, S itself at depth 0.
Nesting(f, S) ==
    CHOOSE n \in 0..Cardinality(DOMAIN f) :
        /\ \E q \in Subtree(f, S) : f[q].kind = "dir" /\ Len(q) - Len(S) = n
        /\ \A q \in Subtree(f, S) : f[q].kind = "dir" => Len(q) - Len(S) <= n

C11_DeleteDepthBounded ==
    /\ job.phase = "deleting" => Len(job.stack) <= MAX_DIRECTORY_DEPTH + 1
    /\ (last.op = "delete_entries" /\ last.flag /\ Len(last.paths) = 1) =>
           LET Of(S, e) ==
                   (/\ e = "Ok"
                    /\ S # NoPath
                    /\ last.pre[S].kind = "dir"
                    /\ Nesting(last.pre, S) > MAX_DIRECTORY_DEPTH)
                       => last.res = "DirectoryTooDeep"
           IN  Of(Resolve(last.pre, last.paths[1], FALSE),
                  FirstValidationError(last.pre, last.paths, NoPath, FALSE,
                                       last.cfg))

\* The tasks of copy_entries_parallel that have been spawned and have not
\* ended.
InFlight ==
    {i \in 1..Len(par.tasks) : par.tasks[i].pc \in {"copy", "count", "emit"}}

\* C13: the copy tasks of copy_entries_parallel that have been spawned and
\* have not finished are never more than clamp(available_parallelism, 1,
\* MAX_PARALLEL_COPIES): while the command runs every such task holds one
\* permit of the semaphore, and the free permits and the held ones add up
\* to that number.
C13_ParallelismBounded ==
    LET P == Clamp(par.cores, 1, MAX_PARALLEL_COPIES)
    IN  par.tasks # <<>> =>
            /\ Cardinality(InFlight) <= P
            /\ par.phase = "running" =>
                   /\ par.permits >= 0
                   /\ par.permits + Cardinality(InFlight) = P

\* A source waits in the spawn loop while as many tasks as there are
\* permits are in flight.
C13_Witness ==
    /\ par.phase = "running"
    /\ par.pending # <<>>
    /\ par.permits = 0
    /\ Cardinality(InFlight) = Clamp(par.cores, 1, MAX_PARALLEL_COPIES)

\* C12: copy_entries_parallel on N sources makes exactly N increments of
\* the shared counter, which give the tasks the values 1..N, and the last
\* copy-progress event emitted has current = total.  Stated for the calls
\* that return Ok, where every task has been joined.
C12_ProgressReachesTotal ==
    (/\ par.phase = "returned"
     /\ par.total > 0
     /\ last.op = "copy_entries_parallel"
     /\ last.res = "Ok") =>
        /\ par.counter = par.total
        /\ {par.tasks[i].current : i \in 1..Len(par.tasks)} = 1..par.total
        /\ par.events # <<>>
        /\ par.events[Len(par.events)].current = par.total

\* C14: the failure of one task of copy_entries_parallel aborts no sibling
\* in flight: after the command has returned the error, every task that
\* was spawned still counts its progress increment once its copy is done,
\* none is cut short.
C14_FailureKeepsSiblings ==
    (par.phase = "returned" /\ last.op = "copy_entries_parallel") =>
        \A i \in 1..Len(par.tasks) : par.tasks[i].pc # "aborted"

\* C17: copy_entries_parallel judges its sources and its destination by the
\* one clone of the policy it took at its start, whatever
\* set_security_config does meanwhile: it goes on to copy exactly when that
\* clone allows the whole batch, it returns the error that clone gives
\* otherwise, and the clone and the shared policy are always policies that
\* were set as a whole.
C17_ConfigSnapshot ==
    LET Judged(v) ==
            /\ par.phase = "running" => v.err = "Ok"
            /\ par.phase = "returned" =>
                   IF v.err # "Ok"
                   THEN /\ last.res = v.err
                        /\ last.post = last.pre
                        /\ par.tasks = <<>>
                   ELSE par.total = Len(v.paths)
    IN  /\ config \in Policies
        /\ (par.phase \in {"running", "returned"}
            /\ (par.phase = "returned" => last.op = "copy_entries_parallel"
                                          /\ last.lock = "Ok"
                                          /\ last.cfg = par.cfg)) =>
               /\ par.cfg \in Policies
               /\ Judged(ValidateBatch(par.pre, par.paths, par.dst, par.cfg))

\* The policy was replaced while copy_entries_parallel was in flight, and
\* the new policy would have judged the batch differently.
C17_Witness ==
    /\ par.phase \in {"running", "returned"}
    /\ \/ par.phase = "running"
       \/ (last.op = "copy_entries_parallel" /\ last.lock = "Ok")
    /\ config # par.cfg
    /\ ValidateBatch(par.pre, par.paths, par.dst, par.cfg).err
           # ValidateBatch(par.pre, par.paths, par.dst, config).err

\* C18: a command that fails to acquire the lock of the policy or of the
\* watch table returns the Internal error and has done nothing to the
\* filesystem.
C18_LockFailureIsInternal ==
    last.lock = "Poisoned" =>
        /\ last.res = "Internal"
        /\ last.post = last.pre

\* C15: when the rename of move_entries fails because source and target
\* are on different devices, the fallback (copy, then delete the source)
\* completes: for a source that is a regular file as for one that is a
\* directory the command returns Ok, the source is gone and the target
\* exists.
C15_MoveFallbackCompletes ==
    LET Moved(s, target) ==
            (/\ s # NoPath
             /\ last.pre[s].kind \in {"file", "dir"}
             /\ ~exists(last.pre, target)
             /\ ResolveNew(last.pre, target) # NoPath
             /\ Device(s) # Device(ResolveNew(last.pre, target))) =>
                /\ last.res = "Ok"
                /\ s \notin DOMAIN last.post
                /\ exists(last.post, target)
        Checked(v) ==
            v.err = "Ok" =>
                Moved(Resolve(last.pre, v.paths[1], FALSE),
                      join(v.dest, file_name(v.paths[1])))
    IN  (last.op = "move_entries" /\ Len(last.paths) = 1) =>
            Checked(CheckBatch(last.pre, last.paths, last.dst, last.cfg))

\* The entries search_files matches below its validated root.
Matching(f, search_path, query) ==
    LET Walked(v) ==
            IF v.err # "Ok" THEN {}
            ELSE {q \in WalkDir(f, v.path) :
                      name_contains(file_name(q), query)}
    IN  Walked(file_ops_validate_path(f, search_path))

InvalidNames == {"", ".", "..", "a/b", "a\\b", "a\\0b"}

ReservedNames == {"CON", "con", "Con. ", "com1.txt"}

C20_ListingOrdered ==
    LET LowerOrder == <<"a", "b", "c", "d", "f", "k", "\\xff">>
        Lower(n) == IF n = "B" THEN "b" ELSE IF n = "C" THEN "c" ELSE n
        Rank(n) == CHOOSE i \in 1..Len(LowerOrder) : LowerOrder[i] = Lower(n)
        Readable(dir) ==
            {q[Len(q)] : q \in Children(last.pre, dir)} \ last.reads
        Listed(es, dir) ==
            /\ {es[i].name : i \in 1..Len(es)} = Readable(dir)
            /\ Len(es) = Cardinality(Readable(dir))
            /\ \A i, j \in 1..Len(es) :
                   i < j =>
                       /\ es[j].is_dir => es[i].is_dir
                       /\ es[i].is_dir = es[j].is_dir =>
                              Rank(es[i].name) <= Rank(es[j].name)
            /\ \A i \in 1..Len(es) :
                   es[i].is_dir
                       = (last.pre[join(dir, es[i].name)].kind = "dir")
    IN  (last.op = "read_directory" /\ last.res = "Ok") =>
            Listed(last.out, canonicalize(last.pre, last.paths[1]))

\* C21: a read_directory_stream that returns Ok has emitted directory-batch
\* events, none of them empty and all but the last of exactly
\* STREAM_BATCH_SIZE entries, that hold every child whose metadata can be
\* read exactly once, and after them exactly one directory-complete; a
\* read_directory_stream that fails has emitted nothing.
C21_StreamBatches ==
    LET Readable(dir) ==
            {q[Len(q)] : q \in Children(last.pre, dir)} \ last.reads
        Names(ev) == {ev.payload[i].name : i \in 1..Len(ev.payload)}
        Streamed(es, dir) ==
            /\ es # <<>>
            /\ es[Len(es)].name = "directory-complete"
            /\ \A i \in 1..(Len(es) - 1) :
                   /\ es[i].name = "directory-batch"
                   /\ es[i].payload # <<>>
                   /\ i < Len(es) - 1 =>
                          Len(es[i].payload) = STREAM_BATCH_SIZE
                   /\ Len(es[i].payload) = Cardinality(Names(es[i]))
                   /\ \A j \in 1..(Len(es) - 1) :
                          i # j => Names(es[i]) \cap Names(es[j]) = {}
            /\ UNION {Names(es[i]) : i \in 1..(Len(es) - 1)} = Readable(dir)
    IN  last.op = "read_directory_stream" =>
            IF last.res = "Ok"
            THEN Streamed(last.out, canonicalize(last.pre, last.paths[1]))
            ELSE last.out = <<>>

\* C22: every copy-progress event of copy_entries_parallel carries a counter
\* value that is the total or a multiple of 5, no value is reported twice,
\* and once all N tasks have completed the values reported are exactly the
\* k of 1..N with k = N or k mod 5 = 0.
C22_ProgressThrottled ==
    LET Reported == {par.events[e].current : e \in 1..Len(par.events)}
        Due == {k \in 1..par.total : k = par.total \/ k % 5 = 0}
    IN  /\ \A e \in 1..Len(par.events) :
               /\ par.events[e].total = par.total
               /\ par.events[e].current \in Due
        /\ Cardinality(Reported) = Len(par.events)
        /\ (/\ par.total > 0
            /\ Len(par.tasks) = par.total
            /\ \A i \in 1..Len(par.tasks) : par.tasks[i].pc = "done") =>
               Reported = Due

\* All tasks of a batch of more than five sources have completed, so that
\* a multiple of 5 below the total was due.
C22_Witness ==
    /\ par.total > 5
    /\ Len(par.tasks) = par.total
    /\ \A i \in 1..Len(par.tasks) : par.tasks[i].pc = "done"
    /\ Len(par.events) = 2
    /\ \E i \in 1..Len(par.tasks) :
           /\ par.tasks[i].current = 3
           /\ par.tasks[i].res = "Ok"

\* C23: while a search runs, should_stop is set exactly when a match has
\* brought found_count to max_results or beyond (with max_results = 0 that
\* is the first match), but for the worker that is between its fetch_add
\* and its store; once set it stays set until the search returns;
\* while it is set no result is added to the collected list; the search
\* returns only when no worker is inside the closure; and every search that
\* started returns.
C23_CooperativeStop ==
    /\ [](job.phase = "searching" =>
             /\ job.should_stop =>
                    job.found_count >= max_results_of(job.max_results)
             /\ job.should_stop => job.found_count >= 1
             /\ (/\ job.found_count >= max_results_of(job.max_results)
                 /\ job.found_count >= 1
                 /\ ~job.should_stop) =>
                    \E w \in 1..Len(job.workers) :
                        job.workers[w].pc = "store")
    /\ [][(job.phase = "searching" /\ job.should_stop) =>
             /\ job'.phase = "searching" => job'.should_stop
             /\ job'.phase = "searching" => job'.results = job.results]_vars
    /\ [][(job.phase = "searching" /\ job'.phase = "idle") =>
             /\ \A w \in 1..Len(job.workers) : job.workers[w].pc = "next"
             /\ last'.op = "search_files"
             /\ last'.res = "Ok"]_vars
    /\ (job.phase = "searching"
           ~> (job.phase = "idle" /\ last.op = "search_files"))

\* The flag is set while another worker is still inside the closure with a
\* match, and entries of the walk are left.
C23_Witness ==
    /\ job.phase = "searching"
    /\ job.should_stop
    /\ job.queue # <<>>
    /\ \E w \in 1..Len(job.workers) : job.workers[w].pc \in {"count", "yield"}
    /\ job.results # <<>>

\* C24: a search_files_stream whose root was validated has emitted, in this
\* order, a search-progress with scanned = 0, search-progress events whose
\* scanned is a positive multiple of SEARCH_PROGRESS_INTERVAL, one final
\* search-progress and one search-complete whose count is the number of
\* results returned, also when the quota stopped the search; one whose root
\* was refused has emitted nothing.
C24_StreamEvents ==
    LET Emitted(es) ==
            /\ Len(es) >= 3
            /\ es[1] = [name |-> "search-progress", scanned |-> 0,
                        found |-> 0]
            /\ \A i \in 2..(Len(es) - 2) :
                   /\ es[i].name = "search-progress"
                   /\ es[i].scanned > 0
                   /\ es[i].scanned % SEARCH_PROGRESS_INTERVAL = 0
            /\ es[Len(es) - 1].name = "search-progress"
            /\ es[Len(es) - 1].found = Len(last.out)
            /\ es[Len(es)] = [name |-> "search-complete",
                              count |-> Len(last.out)]
    IN  /\ last.op = "search_files_stream" =>
               IF last.res = "Ok" THEN Emitted(last.events)
               ELSE last.events = <<>>
        /\ job.phase = "streaming" =>
               /\ job.events # <<>>
               /\ \A i \in 1..Len(job.events) :
                      /\ job.events[i].name = "search-progress"
                      /\ job.events[i].scanned = 0 <=> i = 1
                      /\ job.events[i].scanned % SEARCH_PROGRESS_INTERVAL = 0

\* The quota stopped a search that had scanned more than
\* SEARCH_PROGRESS_INTERVAL entries and left entries unscanned: an
\* intermediate event and the two final events were emitted.
C24_Witness ==
    /\ last.op = "search_files_stream"
    /\ last.res = "Ok"
    /\ last.max_results # {}
    /\ Len(last.events) = 4
    /\ last.events[2].scanned = SEARCH_PROGRESS_INTERVAL
    /\ last.events[3].scanned > SEARCH_PROGRESS_INTERVAL
    /\ last.events[3].scanned < Cardinality(WalkDir(last.pre, last.paths[1]))

\* The queue of copy_dir_iterative holds no depth above
\* MAX_DIRECTORY_DEPTH + 1, and a copy of a directory into itself or into
\* one of its subdirectories has ended with DirectoryTooDeep, having
\* created directories nested at most MAX_DIRECTORY_DEPTH + 1 levels below
\* the destination.
CopyBounded ==
    /\ job.phase = "copying" =>
           \A i \in 1..Len(job.queue) :
               job.queue[i][3] <= MAX_DIRECTORY_DEPTH + 1
    /\ (/\ last.op = "copy_entries"
        /\ Len(last.paths) = 1
        /\ starts_with(last.dst, last.paths[1])) =>
           /\ last.res = "DirectoryTooDeep"
           /\ \A q \in Changed(last.pre, last.post) :
                  /\ starts_with(q, last.dst)
                  /\ last.post[q].kind = "dir" =>
                         Len(q) - Len(last.dst) <= MAX_DIRECTORY_DEPTH + 1

\* C25: every copy_dir_iterative that has started ends, whatever the tree
\* and the destination: its queue never holds a depth above
\* MAX_DIRECTORY_DEPTH + 1, and copy_entries returns.  A copy of a directory
\* into itself or into one of its subdirectories ends with
\* DirectoryTooDeep, and the directories it has created are nested at most
\* MAX_DIRECTORY_DEPTH + 1 levels below the destination.
C25_CopyTerminates ==
    /\ CopyBounded
    /\ [][CopyBounded']_vars
    /\ (job.phase = "copying"
           ~> (job.phase = "idle" /\ last.op = "copy_entries"))

\* /root/d has been copied into itself: the copy was aborted after it had
\* created MAX_DIRECTORY_DEPTH + 1 directories, one inside the other.
C25_Witness ==
    /\ last.op = "copy_entries"
    /\ last.paths = <<<<"/", "root", "d">>>>
    /\ last.dst = <<"/", "root", "d">>
    /\ last.res = "DirectoryTooDeep"
    /\ (<<"/", "root", "d">> \o [i \in 1..(MAX_DIRECTORY_DEPTH + 1) |-> "d"])
           \in DOMAIN last.post
    /\ (<<"/", "root", "d">> \o [i \in 1..(MAX_DIRECTORY_DEPTH + 2) |-> "d"])
           \notin DOMAIN last.post

\* C26: a search with max_results = K >= 1 under whose root at least K
\* entries match returns exactly K results; with max_results = 1 and a
\* matching entry the list is not empty.
C26_ExactlyK ==
    (last.op \in {"search_files", "search_files_stream"}
     /\ last.res = "Ok") =>
        \A k \in last.max_results :
            (k >= 1
             /\ Cardinality(Matching(last.pre, last.paths[1], last.name))
                    >= k) =>
                Len(last.out) = k

\* C27: move_entries loses nothing: every entry of a source (the source
\* itself and whatever lies below it, links included) that is gone from its
\* place after the command is found under the target, with the same kind,
\* link target and content.
C27_MoveKeepsData ==
    LET Kept(s, t) ==
            (s # NoPath /\ t # NoPath) =>
                \A q \in Subtree(last.pre, s) :
                    q \notin DOMAIN last.post =>
                        /\ (t \o SubSeq(q, Len(s) + 1, Len(q)))
                               \in DOMAIN last.post
                        /\ last.post[t \o SubSeq(q, Len(s) + 1, Len(q))]
                               = last.pre[q]
        Checked(v) ==
            v.err = "Ok" =>
                \A i \in 1..Len(v.paths) :
                    Kept(Resolve(last.pre, v.paths[i], FALSE),
                         ResolveNew(last.pre,
                                    join(v.dest, file_name(v.paths[i]))))
    IN  last.op = "move_entries" =>
            Checked(CheckBatch(last.pre, last.paths, last.dst, last.cfg))

\* C28: a permanent delete removes only what is physically inside the
\* directories it was given: every entry it changes lies in the subtree of
\* one of them and is gone afterwards, so that the target of a link nested
\* in a deleted directory keeps all its contents; after a successful delete
\* neither the directory nor anything nested in it, links included, exists.
C28_DeleteStaysInside ==
    LET Checked(v) ==
            v.err = "Ok" =>
                /\ \A q \in Changed(last.pre, last.post) :
                       /\ q \notin DOMAIN last.post
                       /\ \E i \in 1..Len(v.paths) :
                              /\ Resolve(last.pre, v.paths[i], FALSE) # NoPath
                              /\ starts_with(q, Resolve(last.pre, v.paths[i],
                                                        FALSE))
                /\ last.res = "Ok" =>
                       \A i \in 1..Len(v.paths) :
                           Resolve(last.pre, v.paths[i], FALSE) # NoPath =>
                               Subtree(last.pre,
                                       Resolve(last.pre, v.paths[i], FALSE))
                                   \cap DOMAIN last.post = {}
    IN  (last.op = "delete_entries" /\ last.flag) =>
            Checked(validate_paths_sandboxed(last.pre, last.paths, last.cfg))

\* /root/d was deleted for good; the links in it and in its subdirectory s
\* pointed to /out and /out/f, which are as before.
C28_Witness ==
    /\ last.op = "delete_entries"
    /\ last.flag
    /\ last.res = "Ok"
    /\ last.paths = <<<<"/", "root", "d">>>>
    /\ last.pre[<<"/", "root", "d", "l">>].kind = "link"
    /\ last.pre[<<"/", "root", "d", "s", "l">>].kind = "link"
    /\ <<"/", "root", "d">> \notin DOMAIN last.post
    /\ <<"/", "root", "d", "s", "l">> \notin DOMAIN last.post
    /\ \A q \in Subtree(last.pre, <<"/", "out">>) :
           q \in DOMAIN last.post /\ last.post[q] = last.pre[q]

\* C29: move_entries overwrites nothing.  A source whose name is taken in
\* the destination directory, or that lies there itself, is skipped: the
\* entry that holds the name is as before; a batch of that one source
\* changes nothing and returns Ok; and in a batch of two the second source,
\* when its name is free on the device of the source, is moved all the same
\* and the command returns Ok.
C29_MoveNeverOverwrites ==
    LET Src(v, i) == Resolve(last.pre, v.paths[i], FALSE)
        Slot(v, i) ==
            ResolveNew(last.pre, join(v.dest, file_name(v.paths[i])))
        Taken(v, i) ==
            Slot(v, i) # NoPath /\ Slot(v, i) \in DOMAIN last.pre
        Movable(v, i) ==
            /\ Src(v, i) # NoPath
            /\ Slot(v, i) # NoPath
            /\ Slot(v, i) \notin DOMAIN last.pre
            /\ Device(Src(v, i)) = Device(Slot(v, i))
            /\ ~starts_with(Slot(v, i), Src(v, i))
        Checked(v) ==
            v.err = "Ok" =>
                \A i \in 1..Len(v.paths) :
                    Taken(v, i) =>
                        /\ \A q \in Subtree(last.pre, Slot(v, i)) :
                               /\ q \in DOMAIN last.post
                               /\ last.post[q] = last.pre[q]
                        /\ Len(v.paths) = 1 =>
                               last.post = last.pre /\ last.res = "Ok"
                        /\ (Len(v.paths) = 2 /\ i = 1 /\ Movable(v, 2)) =>
                               /\ last.res = "Ok"
                               /\ Src(v, 2) \notin DOMAIN last.post
                               /\ Slot(v, 2) \in DOMAIN last.post
                               /\ last.post[Slot(v, 2)] = last.pre[Src(v, 2)]
    IN  last.op = "move_entries" =>
            Checked(CheckBatch(last.pre, last.paths, last.dst, last.cfg))

\* C30: for every key at most one watcher is live at any time; a
\* watch_directory that found its key in the table created no watcher and
\* returned Ok; after unwatch_directory the table holds no entry for the
\* key of its path.
C30_OneWatcherPerKey ==
    /\ \A p \in job.live, q \in job.live : p[1] = q[1] => p = q
    /\ (/\ last.op = "watch_directory"
        /\ \E p \in last.pre : p[1] = last.name) =>
           ~last.flag /\ last.res = "Ok"
    /\ last.op = "unwatch_directory" =>
           \A p \in last.post : p[1] # last.name

====
